---- MODULE Spec2Model ----
(***************************************************************************)
(* Baycation backend: the chat, trip-discussion and rating controllers as  *)
(* a state machine.  Every HTTP request is a process held in a request     *)
(* slot; a handler is cut into one action per database operation it        *)
(* awaits, so that the steps of different requests interleave exactly      *)
(* where the Node.js event loop can interleave them.  The collections of   *)
(* the document store are sequences in insertion order.                    *)
(*                                                                         *)
(* resp is the HTTP response written by the last step (NoResp when the     *)
(* step wrote none) and events the socket events it published.             *)
(*                                                                         *)
(* User documents never change in the modelled operations except for       *)
(* joinedTrips and guideInfo; joinedTrips is read by no modelled guard and *)
(* is left out, so a read of the User collection commutes with every other *)
(* step and is folded into the step that follows it.                       *)
(***************************************************************************)
EXTENDS Integers, Sequences, FiniteSets, TLC

VARIABLES now, resp, events, req, chats, messages, trips, discussions, ratings, guideInfo, orders

vars == <<now, resp, events, req, chats, messages, trips, discussions, ratings, guideInfo, orders>>

chatVars == <<chats, messages>>

tripVars == <<trips, discussions>>

rateVars == <<ratings, guideInfo, orders>>

(* ---------------------------------------------------------------------- *)
(* Bounds and identifiers                                                  *)
(* ---------------------------------------------------------------------- *)
MaxTime == 1
MaxChats == 3
MaxMsgs == 3
MaxRatings == 2
MaxReports == 6
MaxVersion == 2
MaxOrders == 1

Users == {"u1", "u2", "u3"}
TripIds == {"t1"}
BogusTrip == "t0"
AllTripIds == TripIds \cup {BogusTrip}
MaxContentLen == 1000
GhostUser == "u0"
Reqs == {"r1", "r2"}

MissingId == "undefined"
Missing == [defined |-> FALSE, lead |-> 0, body |-> 0, trail |-> 0]
NoTime == -1
NoUser == "none"
NoResp == [op |-> "none", status |-> 0]
Idle == [pc |-> "idle"]

R(op, st) == [op |-> op, status |-> st]

(* ---------------------------------------------------------------------- *)
(* Message content: a string is kept as the lengths of its leading         *)
(* whitespace, of its core (first to last non-blank character) and of its  *)
(* trailing whitespace.  A string without a non-blank character has        *)
(* body = 0 and trail = 0.                                                 *)
(* ---------------------------------------------------------------------- *)
Str(l, b, t) == [defined |-> TRUE, lead |-> l, body |-> b, trail |-> t]

StrLen(s) == s.lead + s.body + s.trail

Trim(s) == Str(0, s.body, 0)

IsBlank_NoTrim(c) == ~c.defined \/ StrLen(c) = 0

(* !content || content.trim().length === 0 *)
IsBlank(c) == ~c.defined \/ StrLen(c) = 0 \/ StrLen(Trim(c)) = 0

ChatContents == {Missing, Str(0, 0, 0), Str(2, 0, 0), Str(1, 1, 1)}
ChatMsgTypes == {"text", "question"}

(* ---------------------------------------------------------------------- *)
(* Helpers                                                                 *)
(* ---------------------------------------------------------------------- *)
Range(s) == {s[i] : i \in DOMAIN s}

Min(S) == CHOOSE x \in S : \A y \in S : x <= y

Busy == {r \in Reqs : req[r].pc # "idle"}

Tick ==
    /\ now < MaxTime
    /\ now' = now + 1
    /\ resp' = NoResp
    /\ events' = {}
    /\ UNCHANGED <<req, chatVars, tripVars, rateVars>>

(* ====================================================================== *)
(* Chat controller                                                         *)
(* ====================================================================== *)
ParticipantSet(c) == Range(c.participants)

IsChatParticipant_Anyone(c, u) == TRUE

(* chat.participants.some(p => p.user.toString() === userId) *)
IsChatParticipant(c, u) == \E i \in DOMAIN c.participants : c.participants[i] = u

MatchesDirect_Ordered(c, u, p) == c.chatType = "direct" /\ c.participants = <<u, p>>

(* the filter {chatType:'direct', 'participants.user': {$all: [u, p]}} *)
MatchesDirect(c, u, p) == c.chatType = "direct" /\ {u, p} \subseteq ParticipantSet(c)

FindDirectChat(u, p) ==
    LET hits == {i \in DOMAIN chats : MatchesDirect(chats[i], u, p)}
    IN IF hits = {} THEN 0 ELSE Min(hits)

NewChat(u, p) ==
    [chatType |-> "direct", participants |-> <<u, p>>,
     lastMessage |-> 0, lastActivity |-> NoTime]

DirectChatsBetween(a, b) ==
    {i \in DOMAIN chats : chats[i].chatType = "direct" /\ ParticipantSet(chats[i]) = {a, b}}

ChatCreators == {r \in Reqs : req[r].pc = "cdcSave"}

(* The chat returned by the call that completed in the last step, when that *)
(* call was createDirectChat(p, u) with p # u, no request is in flight and  *)
(* the chat is the only direct chat of the pair; 0 otherwise.               *)
FirstCall(u, p) ==
    IF /\ Busy = {}
       /\ resp.op = "createDirectChat"
       /\ resp.status \in {200, 201}
       /\ u # p
       /\ resp.user = p /\ resp.other = u
       /\ DirectChatsBetween(u, p) = {resp.chat}
    THEN resp.chat
    ELSE 0

CdcResp(st, u, p, c, f) ==
    [op |-> "createDirectChat", status |-> st, user |-> u, other |-> p, chat |-> c, first |-> f]

(* request arrives; participantId check, User.findById, Chat.findOne *)
CDC_Find(r, u, p) ==
    /\ req[r].pc = "idle"
    /\ Len(chats) + Cardinality(ChatCreators) < MaxChats
    /\ events' = {}
    /\ UNCHANGED <<rateVars, now, chatVars, tripVars>>
    /\ IF p = MissingId
       THEN /\ resp' = CdcResp(400, u, p, 0, 0)
            /\ UNCHANGED req
       ELSE IF p \notin Users
       THEN /\ resp' = CdcResp(404, u, p, 0, 0)
            /\ UNCHANGED req
       ELSE LET hit == FindDirectChat(u, p)
            IN IF hit # 0
               THEN /\ resp' = CdcResp(200, u, p, hit, FirstCall(u, p))
                    /\ UNCHANGED req
               ELSE /\ resp' = NoResp
                    /\ req' = [req EXCEPT ![r] =
                         [pc |-> "cdcSave", user |-> u, other |-> p, first |-> FirstCall(u, p)]]

(* chat.save(), populate, 201 *)
CDC_Save(r) ==
    /\ req[r].pc = "cdcSave"
    /\ LET q == req[r]
       IN /\ chats' = Append(chats, NewChat(q.user, q.other))
          /\ resp' = CdcResp(201, q.user, q.other, Len(chats) + 1, q.first)
    /\ req' = [req EXCEPT ![r] = Idle]
    /\ events' = {}
    /\ UNCHANGED <<rateVars, now, messages, tripVars>>

(* ---------------------------------------------------------------------- *)
(* ChatController.sendMessage                                              *)
(* ---------------------------------------------------------------------- *)
NewMessage(c, u, content, type) ==
    [chat |-> c, sender |-> u, content |-> content, messageType |-> type,
     readBy |-> {}, isDeleted |-> FALSE, deletedAt |-> NoTime,
     isAnswered |-> FALSE, answer |-> Missing, answeredBy |-> NoUser, answeredAt |-> NoTime]

ChatSendResp(st) == [op |-> "chatSend", status |-> st]

ChatSenders == {r \in Reqs : req[r].pc = "csSaveMsg"}

(* request arrives; content check, Chat.findById, participant check *)
CS_Find(r, u, c, content, type) ==
    /\ req[r].pc = "idle"
    /\ IF IsBlank(content)
       THEN /\ resp' = ChatSendResp(400)
            /\ UNCHANGED req
       ELSE IF c \notin DOMAIN chats
       THEN /\ resp' = ChatSendResp(404)
            /\ UNCHANGED req
       ELSE IF ~IsChatParticipant(chats[c], u)
       THEN /\ resp' = ChatSendResp(403)
            /\ UNCHANGED req
       ELSE /\ resp' = NoResp
            /\ req' = [req EXCEPT ![r] =
                 [pc |-> "csSaveMsg", user |-> u, chat |-> c, content |-> Trim(content), type |-> type]]
    /\ events' = {}
    /\ UNCHANGED <<rateVars, now, chatVars, tripVars>>
    /\ Len(messages) + Cardinality(ChatSenders) < MaxMsgs

(* message.save(), populate; lastActivity is read before chat.save() is issued *)
CS_SaveMsg(r) ==
    /\ req[r].pc = "csSaveMsg"
    /\ LET q == req[r]
       IN /\ messages' = Append(messages, NewMessage(q.chat, q.user, q.content, q.type))
          /\ req' = [req EXCEPT ![r] =
               [pc |-> "csSaveChat", chat |-> q.chat, msg |-> Len(messages) + 1, at |-> now]]
    /\ resp' = NoResp
    /\ events' = {}
    /\ UNCHANGED <<rateVars, now, chats, tripVars>>

(* chat.save() writes lastMessage and lastActivity; emit to every participant; 201 *)
CS_SaveChat(r) ==
    /\ req[r].pc = "csSaveChat"
    /\ LET q == req[r]
       IN /\ chats' = [chats EXCEPT ![q.chat].lastMessage = q.msg,
                                     ![q.chat].lastActivity = q.at]
          /\ events' = {[name |-> "newMessage", room |-> "user", to |-> u] : u \in ParticipantSet(chats[q.chat])}
          /\ resp' = ChatSendResp(201)
    /\ req' = [req EXCEPT ![r] = Idle]
    /\ UNCHANGED <<rateVars, now, messages, tripVars>>

(* an emit call of CS_SaveChat throws at the k-th participant: the earlier    *)
(* participants were notified, and the catch answers 500 after message and    *)
(* chat were stored                                                           *)
CS_SaveChatThrow(r, k) ==
    /\ req[r].pc = "csSaveChat"
    /\ k \in DOMAIN chats[req[r].chat].participants
    /\ LET q == req[r]
       IN /\ chats' = [chats EXCEPT ![q.chat].lastMessage = q.msg,
                                     ![q.chat].lastActivity = q.at]
          /\ events' = {[name |-> "newMessage", room |-> "user", to |-> chats[q.chat].participants[i]] :
                           i \in 1 .. k - 1}
    /\ resp' = ChatSendResp(500)
    /\ req' = [req EXCEPT ![r] = Idle]
    /\ UNCHANGED <<rateVars, now, messages, tripVars>>

(* ---------------------------------------------------------------------- *)
(* ChatController.getChatDetails                                           *)
(* ---------------------------------------------------------------------- *)
(* Chat.findById, participant check; 200 with the chat *)
GD_Find(r, u, c) ==
    /\ req[r].pc = "idle"
    /\ resp' = IF c \notin DOMAIN chats THEN R("getChatDetails", 404)
               ELSE IF ~IsChatParticipant(chats[c], u) THEN R("getChatDetails", 403)
               ELSE R("getChatDetails", 200) @@ [chat |-> chats[c]]
    /\ events' = {}
    /\ UNCHANGED <<rateVars, now, req, chatVars, tripVars>>

(* ---------------------------------------------------------------------- *)
(* ChatController.getChatMessages                                          *)
(* ---------------------------------------------------------------------- *)
ChatPageLimit == 50

RECURSIVE SelectChat(_, _, _)
(* Message.find({ chat: chatId }) in creation order; i is the id of ms[1] *)
SelectChat(ms, i, c) ==
    IF ms = <<>> THEN <<>>
    ELSE (IF ms[1].chat = c THEN <<[id |-> i] @@ ms[1]>> ELSE <<>>) \o SelectChat(Tail(ms), i + 1, c)

(* sort createdAt descending, skip, limit, then reverse: the page counted from the newest *)
LatestPage(ms, page, limit) ==
    LET hi == Len(ms) - (page - 1) * limit
        lo == hi - limit + 1
    IN SubSeq(ms, IF lo < 1 THEN 1 ELSE lo, hi)

(* request arrives; Chat.findById and the participant check *)
GM_Chat(r, u, c, page, limit) ==
    /\ req[r].pc = "idle"
    /\ IF c \notin DOMAIN chats
       THEN resp' = R("getChatMessages", 404) /\ UNCHANGED req
       ELSE IF ~IsChatParticipant(chats[c], u)
       THEN resp' = R("getChatMessages", 403) /\ UNCHANGED req
       ELSE /\ resp' = NoResp
            /\ req' = [req EXCEPT ![r] =
                 [pc |-> "gmFind", user |-> u, chat |-> c, page |-> page, limit |-> limit]]
    /\ events' = {}
    /\ UNCHANGED <<rateVars, now, chatVars, tripVars>>

(* Message.find({ chat }).sort({ createdAt: -1 }).skip(skip).limit(limit) *)
GM_Find(r) ==
    /\ req[r].pc = "gmFind"
    /\ LET q == req[r]
       IN req' = [req EXCEPT ![r] =
            [pc |-> "gmCount", chat |-> q.chat,
             found |-> LatestPage(SelectChat(messages, 1, q.chat), q.page, q.limit)]]
    /\ resp' = NoResp
    /\ events' = {}
    /\ UNCHANGED <<rateVars, now, chatVars, tripVars>>

(* Message.countDocuments({ chat }); 200 with the page and the total *)
GM_Count(r) ==
    /\ req[r].pc = "gmCount"
    /\ LET q == req[r]
       IN resp' = R("getChatMessages", 200) @@
                  [messages |-> q.found, total |-> Len(SelectChat(messages, 1, q.chat))]
    /\ req' = [req EXCEPT ![r] = Idle]
    /\ events' = {}
    /\ UNCHANGED <<rateVars, now, chatVars, tripVars>>

(* ---------------------------------------------------------------------- *)
(* ChatController.markAsRead                                               *)
(* ---------------------------------------------------------------------- *)
MarkTargets_AnySender(ms, c, u) == {i \in DOMAIN ms : ms[i].chat = c /\ u \notin ms[i].readBy}

(* the filter of updateMany: chat, sender $ne user, readBy $ne user *)
MarkTargets(ms, c, u) ==
    {i \in DOMAIN ms : ms[i].chat = c /\ ms[i].sender # u /\ u \notin ms[i].readBy}

(* $addToSet: { readBy: userId } on every message the filter selects *)
MarkRead(ms, c, u) ==
    [i \in DOMAIN ms |->
       IF i \in MarkTargets(ms, c, u) THEN [ms[i] EXCEPT !.readBy = @ \cup {u}] ELSE ms[i]]

(* Message.updateMany; 200 *)
MR_Update(r, u, c) ==
    /\ req[r].pc = "idle"
    /\ messages' = MarkRead(messages, c, u)
    /\ resp' = R("markAsRead", 200) @@ [chat |-> c, user |-> u]
    /\ events' = {}
    /\ UNCHANGED <<rateVars, now, req, chats, tripVars>>

(* ---------------------------------------------------------------------- *)
(* ChatController.deleteMessage                                            *)
(* ---------------------------------------------------------------------- *)
(* request arrives; Message.findById and the sender check *)
DM_Find(r, u, m) ==
    /\ req[r].pc = "idle"
    /\ IF m \notin DOMAIN messages
       THEN resp' = R("deleteMessage", 404) /\ UNCHANGED req
       ELSE IF messages[m].sender # u
       THEN resp' = R("deleteMessage", 403) /\ UNCHANGED req
       ELSE /\ resp' = NoResp
            /\ req' = [req EXCEPT ![r] = [pc |-> "dmSave", user |-> u, doc |-> m, at |-> now]]
    /\ events' = {}
    /\ UNCHANGED <<rateVars, now, chatVars, tripVars>>

(* message.save() writes isDeleted and deletedAt; 200 *)
DM_Save(r) ==
    /\ req[r].pc = "dmSave"
    /\ LET q == req[r]
       IN messages' = [messages EXCEPT ![q.doc].isDeleted = TRUE, ![q.doc].deletedAt = q.at]
    /\ req' = [req EXCEPT ![r] = Idle]
    /\ resp' = R("deleteMessage", 200) @@ [doc |-> req[r].doc]
    /\ events' = {}
    /\ UNCHANGED <<rateVars, now, chats, tripVars>>

(* ---------------------------------------------------------------------- *)
(* ChatController.answerQuestion                                           *)
(* ---------------------------------------------------------------------- *)
(* request arrives; answer check, Message.findById, type and isAnswered checks *)
AQ_Find(r, u, m, answer) ==
    /\ req[r].pc = "idle"
    /\ IF IsBlank(answer)
       THEN resp' = R("answerQuestion", 400) /\ UNCHANGED req
       ELSE IF m \notin DOMAIN messages
       THEN resp' = R("answerQuestion", 404) /\ UNCHANGED req
       ELSE IF messages[m].messageType # "question"
       THEN resp' = R("answerQuestion", 400) /\ UNCHANGED req
       ELSE IF messages[m].isAnswered
       THEN resp' = R("answerQuestion", 400) /\ UNCHANGED req
       ELSE /\ resp' = NoResp
            /\ req' = [req EXCEPT ![r] =
                 [pc |-> "aqSave", user |-> u, doc |-> m, answer |-> Trim(answer), at |-> now]]
    /\ events' = {}
    /\ UNCHANGED <<rateVars, now, chatVars, tripVars>>

(* message.save() writes answer, answeredBy, answeredAt and isAnswered; 200 *)
AQ_Save(r) ==
    /\ req[r].pc = "aqSave"
    /\ LET q == req[r]
       IN messages' = [messages EXCEPT ![q.doc].answer = q.answer,
                                       ![q.doc].answeredBy = q.user,
                                       ![q.doc].answeredAt = q.at,
                                       ![q.doc].isAnswered = TRUE]
    /\ req' = [req EXCEPT ![r] = Idle]
    /\ resp' = R("answerQuestion", 200)
    /\ events' = {}
    /\ UNCHANGED <<rateVars, now, chats, tripVars>>

(* ====================================================================== *)
(* Trips and their discussions                                             *)
(* ====================================================================== *)
NoTrip == [exists |-> FALSE]

NoItinerary == "none"

(* the document version (__v) a save of a replaced array is conditioned on; *)
(* requests that replace an array are accepted while it is below MaxVersion *)
VersionBudget(t) == trips[t].exists => trips[t].v < MaxVersion

(* a deleted trip: its id is never given to another trip *)
DeletedTrip == [exists |-> FALSE, deleted |-> TRUE]

NoPresence == [lastSeen |-> NoTime, isTyping |-> FALSE]

DiscContents ==
    {Missing, Str(0, 0, 0), Str(2, 0, 0), Str(1, 1, 1),
     Str(0, MaxContentLen, 0), Str(0, MaxContentLen + 1, 0)}

DiscMsgTypes == {"text", "system"}

MaxParticipantsChoices == {2}

DiscUsers == {"u1", "u2"}

IsOrganizer(trip, u) == trip.organizer = u

IsConfirmed_AnyStatus(trip, u) ==
    \E i \in DOMAIN trip.participants : trip.participants[i].user = u

(* trip.participants.some(p => p.user === userId && p.status === 'confirmed') *)
IsConfirmed(trip, u) ==
    \E i \in DOMAIN trip.participants :
        trip.participants[i].user = u /\ trip.participants[i].status = "confirmed"

CanAccess(trip, u) == IsOrganizer(trip, u) \/ IsConfirmed(trip, u)

DiscussionsDisabled_Never(trip) == FALSE

(* !trip.collaborativeFeatures.allowDiscussions *)
DiscussionsDisabled(trip) == ~trip.allowDiscussions

(* Discussion.findOne({trip: t}): index of the first document, 0 when none *)
FindDiscussionIn(ds, t) ==
    LET hits == {i \in DOMAIN ds : ds[i].trip = t}
    IN IF hits = {} THEN 0 ELSE Min(hits)

FindDiscussion(t) == FindDiscussionIn(discussions, t)

DiscussionsOf(t) == {i \in DOMAIN discussions : discussions[i].trip = t}

DiscMessage(u, content, type, ts) ==
    [author |-> u, content |-> content, messageType |-> type, timestamp |-> ts]

NewDiscussion(t, msgs) ==
    [trip |-> t, messages |-> msgs, activeUsers |-> [x \in DiscUsers |-> NoPresence]]

(* what the store keeps of $set on the paths activeUsers.<userId>.lastSeen   *)
(* and .isTyping: activeUsers is declared an array of subdocuments, so the   *)
(* paths name no schema path; the entry is written as addressed or the       *)
(* paths are dropped from the update                                         *)
PresenceKept == BOOLEAN

(* findOneAndUpdate({trip: t}, {$push: {messages: ...}, $set: {activeUsers.<u>...}}, *)
(* {upsert: true}) as one atomic operation of the store                             *)
UpsertDiscussion(t, push, u, seen, typing, kept) ==
    LET i == FindDiscussion(t)
        entry == [lastSeen |-> seen, isTyping |-> typing]
    IN IF i = 0
       THEN Append(discussions,
                   [NewDiscussion(t, push) EXCEPT
                       !.activeUsers[u] = IF kept THEN entry ELSE @])
       ELSE [discussions EXCEPT ![i].messages = @ \o push,
                                ![i].activeUsers[u] = IF kept THEN entry ELSE @]

(* findOneAndUpdate({trip: t}, {$push: {messages: m}}) without upsert *)
PushIfPresent(t, m) ==
    LET i == FindDiscussion(t)
    IN IF i = 0 THEN discussions
       ELSE [discussions EXCEPT ![i].messages = Append(@, m)]

RECURSIVE DiscMsgCount(_)
DiscMsgCount(n) ==
    IF n = 0 THEN 0 ELSE Len(discussions[n].messages) + DiscMsgCount(n - 1)

TotalMsgs == Len(messages) + DiscMsgCount(Len(discussions))

Appenders ==
    {r \in Reqs : req[r].pc \in {"csSaveMsg", "dsPush", "jSave", "jMsg", "lSave", "lMsg", "uiSave", "uiMsg"}}

MsgBudget == TotalMsgs + Cardinality(Appenders) < MaxMsgs

TripRoom(name, t) == [name |-> name, room |-> "trip", to |-> t]

Broadcast(name, t) == [name |-> name, room |-> "all", to |-> t]

(* ---------------------------------------------------------------------- *)
(* TripController.createTrip                                               *)
(* ---------------------------------------------------------------------- *)
AllowFromBody_Truthy(cf) == cf = "true"

(* collaborativeFeatures?.allowDiscussions !== false *)
AllowFromBody(cf) == cf # "false"

NewTrip(u, cf, maxP, ts) ==
    [exists |-> TRUE, organizer |-> u, participants |-> <<>>,
     currentParticipants |-> 0, maxParticipants |-> maxP,
     status |-> "planning", isPublic |-> TRUE, isApproved |-> FALSE,
     itinerary |-> NoItinerary, allowItineraryEditing |-> TRUE, v |-> 0,
     allowDiscussions |-> AllowFromBody(cf), lastActivity |-> ts]

TripSeed(u, ts) == DiscMessage(u, Str(0, 81, 0), "system", ts)

(* trip.save(), populate, User.findByIdAndUpdate; 201 when discussions are off *)
CT_Save(r, u, t, cf, maxP) ==
    /\ req[r].pc = "idle"
    /\ trips[t] = NoTrip
    /\ trips' = [trips EXCEPT ![t] = NewTrip(u, cf, maxP, now)]
    /\ IF AllowFromBody(cf)
       THEN /\ req' = [req EXCEPT ![r] = [pc |-> "ctDisc", user |-> u, trip |-> t, at |-> now]]
            /\ resp' = NoResp
       ELSE /\ UNCHANGED req
            /\ resp' = R("createTrip", 201)
    /\ events' = {}
    /\ UNCHANGED <<rateVars, now, chatVars, discussions>>

(* discussion.save(); 201 *)
CT_Disc(r) ==
    /\ req[r].pc = "ctDisc"
    /\ LET q == req[r]
       IN discussions' = Append(discussions, NewDiscussion(q.trip, <<TripSeed(q.user, q.at)>>))
    /\ req' = [req EXCEPT ![r] = Idle]
    /\ resp' = R("createTrip", 201)
    /\ events' = {}
    /\ UNCHANGED <<rateVars, now, chatVars, trips>>

(* ---------------------------------------------------------------------- *)
(* TripController.updateTrip                                               *)
(* ---------------------------------------------------------------------- *)
(* request arrives; Trip.findById and the organizer check *)
UT_Find(r, u, t, body) ==
    /\ req[r].pc = "idle"
    /\ VersionBudget(t)
    /\ IF ~trips[t].exists
       THEN resp' = R("updateTrip", 404) /\ UNCHANGED req
       ELSE IF trips[t].organizer # u
       THEN resp' = R("updateTrip", 403) /\ UNCHANGED req
       ELSE /\ resp' = NoResp
            /\ req' = [req EXCEPT ![r] =
                 [pc |-> "utSave", user |-> u, trip |-> t, body |-> body, at |-> now,
                  v |-> trips[t].v,
                  replaces |-> "participants" \in DOMAIN body
                               /\ body.participants # trips[t].participants]]
    /\ events' = {}
    /\ UNCHANGED <<rateVars, now, chatVars, tripVars>>

(* Object.assign(trip, updateData), trip.save(): the fields of the body and *)
(* lastActivity are written; a replaced participants array makes the save   *)
(* conditional on the version read (a mismatch is a VersionError, 500) and   *)
(* increments it; emit tripUpdated to the trip room; 200                     *)
UT_Save(r) ==
    /\ req[r].pc = "utSave"
    /\ trips[req[r].trip].exists
    /\ LET q == req[r]
       IN IF q.replaces /\ trips[q.trip].v # q.v
          THEN /\ UNCHANGED trips
               /\ events' = {}
               /\ resp' = R("updateTrip", 500)
          ELSE /\ trips' = [trips EXCEPT ![q.trip] =
                               q.body @@ [@ EXCEPT !.lastActivity = q.at,
                                                   !.v = IF q.replaces THEN @ + 1 ELSE @]]
               /\ events' = {TripRoom("tripUpdated", q.trip)}
               /\ resp' = R("updateTrip", 200)
    /\ req' = [req EXCEPT ![r] = Idle]
    /\ UNCHANGED <<rateVars, now, chatVars, discussions>>

(* ---------------------------------------------------------------------- *)
(* TripController.deleteTrip                                               *)
(* ---------------------------------------------------------------------- *)
Admins == {"u3"}

(* requester.role === 'admin', or the configured super admin *)
IsAdmin(u) == u \in Admins

RemoveAt(seq, i) == SubSeq(seq, 1, i - 1) \o SubSeq(seq, i + 1, Len(seq))

(* request arrives; Trip.findById, User.findById and the organizer-or-admin check *)
DT_Find(r, u, t) ==
    /\ req[r].pc = "idle"
    /\ IF ~trips[t].exists
       THEN resp' = R("deleteTrip", 404) /\ UNCHANGED req
       ELSE IF ~IsOrganizer(trips[t], u) /\ ~IsAdmin(u)
       THEN resp' = R("deleteTrip", 403) /\ UNCHANGED req
       ELSE /\ resp' = NoResp
            /\ req' = [req EXCEPT ![r] = [pc |-> "dtDisc", user |-> u, trip |-> t]]
    /\ events' = {}
    /\ UNCHANGED <<rateVars, now, chatVars, tripVars>>

(* Discussion.findOneAndDelete({ trip: tripId }): removes one document, if any *)
DT_Disc(r) ==
    /\ req[r].pc = "dtDisc"
    /\ LET i == FindDiscussion(req[r].trip)
       IN discussions' = IF i = 0 THEN discussions ELSE RemoveAt(discussions, i)
    /\ req' = [req EXCEPT ![r].pc = "dtTrip"]
    /\ resp' = NoResp
    /\ events' = {}
    /\ UNCHANGED <<rateVars, now, chatVars, trips>>

(* Trip.findByIdAndDelete, User.updateMany; emit tripDeleted to the trip room; 200 *)
DT_Trip(r) ==
    /\ req[r].pc = "dtTrip"
    /\ trips' = [trips EXCEPT ![req[r].trip] = DeletedTrip]
    /\ events' = {TripRoom("tripDeleted", req[r].trip)}
    /\ req' = [req EXCEPT ![r] = Idle]
    /\ resp' = R("deleteTrip", 200) @@ [trip |-> req[r].trip]
    /\ UNCHANGED <<rateVars, now, chatVars, discussions>>

(* ---------------------------------------------------------------------- *)
(* TripController.approveTrip                                              *)
(* ---------------------------------------------------------------------- *)
(* User.findById and the admin check; Trip.findByIdAndUpdate sets isApproved; *)
(* io.emit('tripCreated') to every client; 200                                *)
AP_Approve(r, u, t) ==
    /\ req[r].pc = "idle"
    /\ IF ~IsAdmin(u)
       THEN resp' = R("approveTrip", 403) /\ events' = {} /\ UNCHANGED trips
       ELSE IF ~trips[t].exists
       THEN resp' = R("approveTrip", 404) /\ events' = {} /\ UNCHANGED trips
       ELSE /\ trips' = [trips EXCEPT ![t].isApproved = TRUE]
            /\ events' = {Broadcast("tripCreated", t)}
            /\ resp' = R("approveTrip", 200)
    /\ UNCHANGED <<rateVars, now, req, chatVars, discussions>>

(* ---------------------------------------------------------------------- *)
(* TripController.getAllTrips                                              *)
(* ---------------------------------------------------------------------- *)
(* the query { isPublic: true, isApproved: true } *)
ListAll(ts) == {t \in TripIds : ts[t].exists /\ ts[t].isPublic /\ ts[t].isApproved}

(* request arrives; Trip.find(query) *)
GA_Find(r) ==
    /\ req[r].pc = "idle"
    /\ req' = [req EXCEPT ![r] =
         [pc |-> "gaCount",
          found |-> {[id |-> t, isApproved |-> trips[t].isApproved] : t \in ListAll(trips)}]]
    /\ resp' = NoResp
    /\ events' = {}
    /\ UNCHANGED <<rateVars, now, chatVars, tripVars>>

(* Trip.countDocuments(query); 200 with the trips found and the total *)
GA_Count(r) ==
    /\ req[r].pc = "gaCount"
    /\ resp' = R("getAllTrips", 200) @@
               [trips |-> req[r].found, total |-> Cardinality(ListAll(trips))]
    /\ req' = [req EXCEPT ![r] = Idle]
    /\ events' = {}
    /\ UNCHANGED <<rateVars, now, chatVars, tripVars>>

(* ---------------------------------------------------------------------- *)
(* TripController.joinTrip                                                 *)
(* ---------------------------------------------------------------------- *)
(* Trip.updateParticipantCount *)
ParticipantCount(ps) == Len(ps)

JoinMessage(u, ts) == DiscMessage(u, Str(0, 23, 0), "user_joined", ts)

(* request arrives; Trip.findById and the joinability checks *)
J_Find(r, u, t) ==
    /\ req[r].pc = "idle"
    /\ MsgBudget
    /\ events' = {}
    /\ UNCHANGED <<rateVars, now, chatVars, tripVars>>
    /\ LET trip == trips[t]
       IN IF ~trip.exists
          THEN resp' = R("joinTrip", 404) /\ UNCHANGED req
          ELSE IF trip.currentParticipants >= trip.maxParticipants
          THEN resp' = R("joinTrip", 400) /\ UNCHANGED req
          ELSE IF trip.status \in {"completed", "cancelled"}
          THEN resp' = R("joinTrip", 400) /\ UNCHANGED req
          ELSE IF \E i \in DOMAIN trip.participants : trip.participants[i].user = u
          THEN resp' = R("joinTrip", 400) /\ UNCHANGED req
          ELSE /\ resp' = NoResp
               /\ req' = [req EXCEPT ![r] =
                    [pc |-> "jSave", user |-> u, trip |-> t,
                     count |-> ParticipantCount(trip.participants) + 1,
                     allow |-> trip.allowDiscussions, at |-> now]]

(* trip.save(): $push of the new participant, $set of the count and          *)
(* lastActivity; a $push increments the version without being conditioned on it *)
J_Save(r) ==
    /\ req[r].pc = "jSave"
    /\ LET q == req[r]
       IN /\ trips' = [trips EXCEPT
                ![q.trip].participants = Append(@, [user |-> q.user, status |-> "confirmed"]),
                ![q.trip].currentParticipants = q.count,
                ![q.trip].lastActivity = q.at,
                ![q.trip].v = @ + 1]
          /\ IF q.allow
             THEN /\ req' = [req EXCEPT ![r] = [pc |-> "jMsg", user |-> q.user, trip |-> q.trip, at |-> now]]
                  /\ resp' = NoResp
                  /\ events' = {}
             ELSE /\ req' = [req EXCEPT ![r] = Idle]
                  /\ resp' = R("joinTrip", 200)
                  /\ events' = {TripRoom("userJoined", q.trip), Broadcast("tripUpdated", q.trip)}
    /\ UNCHANGED <<rateVars, now, chatVars, discussions>>

(* Discussion.findOneAndUpdate($push user_joined); emits; 200 *)
J_Msg(r) ==
    /\ req[r].pc = "jMsg"
    /\ LET q == req[r]
       IN /\ discussions' = PushIfPresent(q.trip, JoinMessage(q.user, q.at))
          /\ events' = {TripRoom("userJoined", q.trip), Broadcast("tripUpdated", q.trip)}
    /\ req' = [req EXCEPT ![r] = Idle]
    /\ resp' = R("joinTrip", 200)
    /\ UNCHANGED <<rateVars, now, chatVars, trips>>

(* ---------------------------------------------------------------------- *)
(* TripController.leaveTrip                                                *)
(* ---------------------------------------------------------------------- *)
LeaveMessage(u, ts) == DiscMessage(u, Str(0, 22, 0), "user_left", ts)

Without(ps, u) == SelectSeq(ps, LAMBDA p : p.user # u)

(* request arrives; Trip.findById, the organizer check, participants filtered *)
L_Find(r, u, t) ==
    /\ req[r].pc = "idle"
    /\ MsgBudget
    /\ VersionBudget(t)
    /\ events' = {}
    /\ UNCHANGED <<rateVars, now, chatVars, tripVars>>
    /\ LET trip == trips[t]
       IN IF ~trip.exists
          THEN resp' = R("leaveTrip", 404) /\ UNCHANGED req
          ELSE IF trip.organizer = u
          THEN resp' = R("leaveTrip", 400) /\ UNCHANGED req
          ELSE /\ resp' = NoResp
               /\ req' = [req EXCEPT ![r] =
                    [pc |-> "lSave", user |-> u, trip |-> t,
                     participants |-> Without(trip.participants, u),
                     replaces |-> Without(trip.participants, u) # trip.participants,
                     count |-> ParticipantCount(Without(trip.participants, u)),
                     writesCount |->
                        ParticipantCount(Without(trip.participants, u)) # trip.currentParticipants,
                     v |-> trip.v, allow |-> trip.allowDiscussions, at |-> now]]

(* trip.save() writes the paths that were modified: the filtered array and   *)
(* the count when they differ from what was read, and lastActivity; a        *)
(* replaced array makes the save conditional on the version                  *)
L_Save(r) ==
    /\ req[r].pc = "lSave"
    /\ trips[req[r].trip].exists
    /\ LET q == req[r]
       IN IF q.replaces /\ trips[q.trip].v # q.v
          THEN /\ UNCHANGED trips
               /\ req' = [req EXCEPT ![r] = Idle]
               /\ resp' = R("leaveTrip", 500)
               /\ events' = {}
          ELSE /\ trips' = [trips EXCEPT
                     ![q.trip].participants = IF q.replaces THEN q.participants ELSE @,
                     ![q.trip].currentParticipants = IF q.writesCount THEN q.count ELSE @,
                     ![q.trip].lastActivity = q.at,
                     ![q.trip].v = IF q.replaces THEN @ + 1 ELSE @]
               /\ IF q.allow
                  THEN /\ req' = [req EXCEPT ![r] =
                            [pc |-> "lMsg", user |-> q.user, trip |-> q.trip,
                             replaces |-> q.replaces, at |-> now]]
                       /\ resp' = NoResp
                       /\ events' = {}
                  ELSE /\ req' = [req EXCEPT ![r] = Idle]
                       /\ resp' = R("leaveTrip", 200)
                       /\ events' = {TripRoom("userLeft", q.trip), Broadcast("tripUpdated", q.trip)}
    /\ UNCHANGED <<rateVars, now, chatVars, discussions>>

(* Discussion.findOneAndUpdate($push user_left); emits; 200 *)
L_Msg(r) ==
    /\ req[r].pc = "lMsg"
    /\ LET q == req[r]
       IN /\ discussions' = PushIfPresent(q.trip, LeaveMessage(q.user, q.at))
          /\ events' = {TripRoom("userLeft", q.trip), Broadcast("tripUpdated", q.trip)}
    /\ req' = [req EXCEPT ![r] = Idle]
    /\ resp' = R("leaveTrip", 200)
    /\ UNCHANGED <<rateVars, now, chatVars, trips>>

(* ---------------------------------------------------------------------- *)
(* TripController.updateItinerary                                          *)
(* ---------------------------------------------------------------------- *)
ItineraryMessage(u, ts) == DiscMessage(u, Str(0, 27, 0), "itinerary_update", ts)

(* request arrives; Trip.findById, the feature and access checks *)
UI_Find(r, u, t, itinerary) ==
    /\ req[r].pc = "idle"
    /\ MsgBudget
    /\ VersionBudget(t)
    /\ events' = {}
    /\ UNCHANGED <<rateVars, now, chatVars, tripVars>>
    /\ LET trip == trips[t]
       IN IF ~trip.exists
          THEN resp' = R("updateItinerary", 404) /\ UNCHANGED req
          ELSE IF ~trip.allowItineraryEditing
          THEN resp' = R("updateItinerary", 403) /\ UNCHANGED req
          ELSE IF ~CanAccess(trip, u)
          THEN resp' = R("updateItinerary", 403) /\ UNCHANGED req
          ELSE /\ resp' = NoResp
               /\ req' = [req EXCEPT ![r] =
                    [pc |-> "uiSave", user |-> u, trip |-> t, itinerary |-> itinerary,
                     v |-> trip.v, allow |-> trip.allowDiscussions, at |-> now]]

(* trip.save(): the itinerary array is replaced, conditional on the version *)
UI_Save(r) ==
    /\ req[r].pc = "uiSave"
    /\ trips[req[r].trip].exists
    /\ LET q == req[r]
       IN IF trips[q.trip].v # q.v
          THEN /\ UNCHANGED trips
               /\ req' = [req EXCEPT ![r] = Idle]
               /\ resp' = R("updateItinerary", 500)
               /\ events' = {}
          ELSE /\ trips' = [trips EXCEPT ![q.trip].itinerary = q.itinerary,
                                         ![q.trip].lastActivity = q.at,
                                         ![q.trip].v = @ + 1]
               /\ IF q.allow
                  THEN /\ req' = [req EXCEPT ![r] =
                            [pc |-> "uiMsg", user |-> q.user, trip |-> q.trip, at |-> now]]
                       /\ resp' = NoResp
                       /\ events' = {}
                  ELSE /\ req' = [req EXCEPT ![r] = Idle]
                       /\ resp' = R("updateItinerary", 200)
                       /\ events' = {TripRoom("itineraryUpdated", q.trip)}
    /\ UNCHANGED <<rateVars, now, chatVars, discussions>>

(* Discussion.findOneAndUpdate($push itinerary_update); emit; 200 *)
UI_Msg(r) ==
    /\ req[r].pc = "uiMsg"
    /\ LET q == req[r]
       IN /\ discussions' = PushIfPresent(q.trip, ItineraryMessage(q.user, q.at))
          /\ events' = {TripRoom("itineraryUpdated", q.trip)}
    /\ req' = [req EXCEPT ![r] = Idle]
    /\ resp' = R("updateItinerary", 200)
    /\ UNCHANGED <<rateVars, now, chatVars, trips>>

(* ---------------------------------------------------------------------- *)
(* DiscussionController.getDiscussion                                      *)
(* ---------------------------------------------------------------------- *)
DiscSeed(u, ts) == DiscMessage(u, Str(0, 33, 0), "system", ts)

DefaultLimit == 50

RECURSIVE InsertByTimestamp(_, _)
InsertByTimestamp(m, ms) ==
    IF ms = <<>> THEN <<m>>
    ELSE IF ms[Len(ms)].timestamp <= m.timestamp THEN Append(ms, m)
    ELSE Append(InsertByTimestamp(m, SubSeq(ms, 1, Len(ms) - 1)), ms[Len(ms)])

SortByTimestamp_None(ms) == ms

(* messages.sort((a, b) => new Date(a.timestamp) - new Date(b.timestamp)): *)
(* a stable sort, equal timestamps keep their stored order                  *)
RECURSIVE SortByTimestamp(_)
SortByTimestamp(ms) ==
    IF ms = <<>> THEN <<>>
    ELSE InsertByTimestamp(ms[Len(ms)], SortByTimestamp(SubSeq(ms, 1, Len(ms) - 1)))

(* .slice(skip, skip + limit) with skip = (page - 1) * limit *)
Page(ms, page, limit) ==
    SubSeq(ms, (page - 1) * limit + 1, Min({page * limit, Len(ms)}))

GetResp(ms, page, limit) ==
    [op |-> "getDiscussion", status |-> 200,
     messages |-> Page(SortByTimestamp(ms), page, limit)]

(* request arrives; Trip.findById and the access check *)
G_Trip(r, u, t, page, limit) ==
    /\ req[r].pc = "idle"
    /\ events' = {}
    /\ UNCHANGED <<rateVars, now, chatVars, tripVars>>
    /\ IF ~trips[t].exists
       THEN resp' = R("getDiscussion", 404) /\ UNCHANGED req
       ELSE IF ~CanAccess(trips[t], u)
       THEN resp' = R("getDiscussion", 403) /\ UNCHANGED req
       ELSE /\ resp' = NoResp
            /\ req' = [req EXCEPT ![r] =
                 [pc |-> "gFind", user |-> u, trip |-> t, page |-> page, limit |-> limit]]

(* Discussion.findOne; answer with the sorted page, or build the seeded document *)
G_Find(r) ==
    /\ req[r].pc = "gFind"
    /\ events' = {}
    /\ UNCHANGED <<rateVars, now, chatVars, tripVars>>
    /\ LET q == req[r]
       IN IF FindDiscussion(q.trip) # 0
          THEN /\ resp' = GetResp(discussions[FindDiscussion(q.trip)].messages, q.page, q.limit)
               /\ req' = [req EXCEPT ![r] = Idle]
          ELSE /\ resp' = NoResp
               /\ req' = [req EXCEPT ![r] = [q EXCEPT !.pc = "gSave"] @@ [at |-> now]]

(* discussion.save(); answer with the sorted page of the new document *)
G_Save(r) ==
    /\ req[r].pc = "gSave"
    /\ LET q == req[r]
       IN /\ discussions' = Append(discussions, NewDiscussion(q.trip, <<DiscSeed(q.user, q.at)>>))
          /\ resp' = GetResp(<<DiscSeed(q.user, q.at)>>, q.page, q.limit)
    /\ req' = [req EXCEPT ![r] = Idle]
    /\ events' = {}
    /\ UNCHANGED <<rateVars, now, chatVars, trips>>

(* ---------------------------------------------------------------------- *)
(* DiscussionController.sendMessage                                        *)
(* ---------------------------------------------------------------------- *)
(* request arrives; content check, Trip.findById, feature and access checks *)
DS_Check(r, u, t, content, type) ==
    /\ req[r].pc = "idle"
    /\ IF IsBlank(content)
       THEN resp' = R("sendMessage", 400) /\ UNCHANGED req
       ELSE IF ~trips[t].exists
       THEN resp' = R("sendMessage", 404) /\ UNCHANGED req
       ELSE IF DiscussionsDisabled(trips[t])
       THEN resp' = R("sendMessage", 403) /\ UNCHANGED req
       ELSE IF ~CanAccess(trips[t], u)
       THEN resp' = R("sendMessage", 403) /\ UNCHANGED req
       ELSE /\ resp' = NoResp
            /\ req' = [req EXCEPT ![r] =
                 [pc |-> "dsPush", user |-> u, trip |-> t,
                  msg |-> DiscMessage(u, Trim(content), type, now)]]
    /\ events' = {}
    /\ UNCHANGED <<rateVars, now, chatVars, tripVars>>
    /\ MsgBudget

(* Discussion.findOneAndUpdate with $push, $set and upsert *)
DS_Push(r) ==
    /\ req[r].pc = "dsPush"
    /\ LET q == req[r]
       IN /\ \E kept \in PresenceKept :
                discussions' = UpsertDiscussion(q.trip, <<q.msg>>, q.user, q.msg.timestamp, FALSE, kept)
          /\ req' = [req EXCEPT ![r] = [pc |-> "dsTouch", trip |-> q.trip, at |-> now]]
    /\ resp' = NoResp
    /\ events' = {}
    /\ UNCHANGED <<rateVars, now, chatVars, trips>>

(* Trip.findByIdAndUpdate(lastActivity); emit newMessage; 201 *)
DS_Touch(r) ==
    /\ req[r].pc = "dsTouch"
    /\ LET q == req[r]
       IN /\ trips' = IF trips[q.trip].exists
                      THEN [trips EXCEPT ![q.trip].lastActivity = q.at]
                      ELSE trips
          /\ events' = {TripRoom("newMessage", q.trip)}
    /\ req' = [req EXCEPT ![r] = Idle]
    /\ resp' = R("sendMessage", 201)
    /\ UNCHANGED <<rateVars, now, chatVars, discussions>>

(* the emit call of DS_Touch throws: it stands inside the handler's try, so *)
(* the catch answers 500 after the message and lastActivity were stored     *)
DS_TouchThrow(r) ==
    /\ req[r].pc = "dsTouch"
    /\ LET q == req[r]
       IN trips' = IF trips[q.trip].exists
                   THEN [trips EXCEPT ![q.trip].lastActivity = q.at]
                   ELSE trips
    /\ events' = {}
    /\ req' = [req EXCEPT ![r] = Idle]
    /\ resp' = R("sendMessage", 500)
    /\ UNCHANGED <<rateVars, now, chatVars, discussions>>

(* ---------------------------------------------------------------------- *)
(* DiscussionController.updateTypingStatus                                 *)
(* ---------------------------------------------------------------------- *)
(* request arrives; Trip.findById and the access check *)
TY_Check(r, u, t, isTyping) ==
    /\ req[r].pc = "idle"
    /\ events' = {}
    /\ UNCHANGED <<rateVars, now, chatVars, tripVars>>
    /\ IF ~trips[t].exists
       THEN resp' = R("updateTypingStatus", 404) /\ UNCHANGED req
       ELSE IF ~CanAccess(trips[t], u)
       THEN resp' = R("updateTypingStatus", 403) /\ UNCHANGED req
       ELSE /\ resp' = NoResp
            /\ req' = [req EXCEPT ![r] =
                 [pc |-> "tyUpsert", user |-> u, trip |-> t, isTyping |-> isTyping, at |-> now]]

(* Discussion.findOneAndUpdate with $set and upsert; emit typingStatus; 200 *)
TY_Upsert(r) ==
    /\ req[r].pc = "tyUpsert"
    /\ LET q == req[r]
       IN /\ \E kept \in PresenceKept :
                discussions' = UpsertDiscussion(q.trip, <<>>, q.user, q.at, q.isTyping, kept)
          /\ events' = {TripRoom("typingStatus", q.trip)}
    /\ req' = [req EXCEPT ![r] = Idle]
    /\ resp' = R("updateTypingStatus", 200)
    /\ UNCHANGED <<rateVars, now, chatVars, trips>>

(* ---------------------------------------------------------------------- *)
(* DiscussionController.markUserActive                                     *)
(* ---------------------------------------------------------------------- *)
MA_Upsert(r, u, t) ==
    /\ req[r].pc = "idle"
    /\ \E kept \in PresenceKept : discussions' = UpsertDiscussion(t, <<>>, u, now, FALSE, kept)
    /\ resp' = R("markUserActive", 200)
    /\ events' = {}
    /\ UNCHANGED <<rateVars, now, req, chatVars, trips>>

(* ====================================================================== *)
(* Rating controller                                                       *)
(* ====================================================================== *)
Guides == {"u2"}

(* User.role; no modelled operation changes it *)
Role(u) == IF u \in Guides THEN "guide" ELSE "traveler"

(* guideInfo.rating of a guide nobody has rated; average is kept in tenths *)
NoGuideRating == [average |-> 0, count |-> 0]

MinRating == 1
MaxRating == 5
MaxReviewLen == 1000
HideThreshold == 5

(* the schema validators that document.save() runs *)
ValidRating(score, review) ==
    /\ score >= MinRating
    /\ score <= MaxRating
    /\ review.defined => StrLen(review) <= MaxReviewLen

NewRating(u, tt, tid, score, review) ==
    [reviewer |-> u, targetType |-> tt, targetId |-> tid,
     rating |-> score, review |-> review, reportCount |-> 0, isHidden |-> FALSE]

RatingsIn(rs, u, tt, tid) ==
    {i \in DOMAIN rs :
        rs[i].reviewer = u /\ rs[i].targetType = tt /\ rs[i].targetId = tid}

RatingsOf(u, tt, tid) == RatingsIn(ratings, u, tt, tid)

(* Rating.findOne({reviewer, targetType, targetId}): index of the first hit, 0 when none *)
FindRating(u, tt, tid) ==
    IF RatingsOf(u, tt, tid) = {} THEN 0 ELSE Min(RatingsOf(u, tt, tid))

UniqueConflict_Off(u, tt, tid) == FALSE

(* the unique index {reviewer, targetType, targetId} rejects a second document *)
UniqueConflict(u, tt, tid) == RatingsOf(u, tt, tid) # {}

(* the switch on targetType with User.findById / Trip.findById *)
TargetFound(tt, tid) ==
    IF tt = "guide"
    THEN tid \in Users /\ Role(tid) = "guide"
    ELSE tid \in AllTripIds /\ trips[tid].exists

RateResp(st, u, tt, tid, score, review) ==
    [op |-> "createRating", status |-> st, reviewer |-> u, targetType |-> tt,
     targetId |-> tid, rating |-> score, review |-> review]

RatingCreators == {r \in Reqs : req[r].pc = "crInsert"}

(* request arrives; target lookup and Rating.findOne *)
CR_Find(r, u, tt, tid, score, review) ==
    /\ req[r].pc = "idle"
    /\ IF tt \notin {"guide", "trip"}
       THEN resp' = R("createRating", 400) /\ UNCHANGED req
       ELSE IF ~TargetFound(tt, tid)
       THEN resp' = R("createRating", 404) /\ UNCHANGED req
       ELSE /\ resp' = NoResp
            /\ IF FindRating(u, tt, tid) # 0
               THEN req' = [req EXCEPT ![r] =
                      [pc |-> "crUpdate", doc |-> FindRating(u, tt, tid), user |-> u,
                       targetType |-> tt, targetId |-> tid, rating |-> score, review |-> review]]
               ELSE /\ Len(ratings) + Cardinality(RatingCreators) < MaxRatings
                    /\ req' = [req EXCEPT ![r] =
                         [pc |-> "crInsert", doc |-> 0, user |-> u,
                          targetType |-> tt, targetId |-> tid, rating |-> score, review |-> review]]
    /\ events' = {}
    /\ UNCHANGED <<rateVars, now, chatVars, tripVars>>

(* existingRating.save(): validation, then $set of rating and review; 200 *)
CR_Update(r) ==
    /\ req[r].pc = "crUpdate"
    /\ LET q == req[r]
       IN IF ~ValidRating(q.rating, q.review)
          THEN /\ resp' = R("createRating", 500)
               /\ UNCHANGED ratings
          ELSE /\ resp' = RateResp(200, q.user, q.targetType, q.targetId, q.rating, q.review)
               /\ ratings' = [ratings EXCEPT ![q.doc].rating = q.rating,
                                             ![q.doc].review = q.review]
    /\ req' = [req EXCEPT ![r] = Idle]
    /\ events' = {}
    /\ UNCHANGED <<guideInfo, orders, now, chatVars, tripVars>>

(* newRating.save(): validation, unique index, insert; 201 for a trip *)
CR_Insert(r) ==
    /\ req[r].pc = "crInsert"
    /\ LET q == req[r]
       IN IF ~ValidRating(q.rating, q.review) \/ UniqueConflict(q.user, q.targetType, q.targetId)
          THEN /\ resp' = R("createRating", 500)
               /\ req' = [req EXCEPT ![r] = Idle]
               /\ UNCHANGED ratings
          ELSE /\ ratings' = Append(ratings,
                                    NewRating(q.user, q.targetType, q.targetId, q.rating, q.review))
               /\ IF q.targetType = "guide"
                  THEN /\ resp' = NoResp
                       /\ req' = [req EXCEPT ![r] = [q EXCEPT !.pc = "grFind"]]
                  ELSE /\ resp' = RateResp(201, q.user, q.targetType, q.targetId, q.rating, q.review)
                       /\ req' = [req EXCEPT ![r] = Idle]
    /\ events' = {}
    /\ UNCHANGED <<guideInfo, orders, now, chatVars, tripVars>>

RECURSIVE SumRatings(_)
SumRatings(S) ==
    IF S = {} THEN 0
    ELSE LET i == CHOOSE x \in S : TRUE
         IN ratings[i].rating + SumRatings(S \ {i})

(* Math.round((total / n) * 10) / 10, in tenths *)
Average(S) == (20 * SumRatings(S) + Cardinality(S)) \div (2 * Cardinality(S))

VisibleGuideRatings(g) ==
    {i \in DOMAIN ratings :
        ratings[i].targetType = "guide" /\ ratings[i].targetId = g /\ ~ratings[i].isHidden}

(* updateGuideRating: Rating.find of the guide's visible ratings *)
GR_Find(r) ==
    /\ req[r].pc = "grFind"
    /\ LET q == req[r]
           vis == VisibleGuideRatings(q.targetId)
       IN IF vis = {}
          THEN /\ resp' = RateResp(201, q.user, q.targetType, q.targetId, q.rating, q.review)
               /\ req' = [req EXCEPT ![r] = Idle]
          ELSE /\ resp' = NoResp
               /\ req' = [req EXCEPT ![r] =
                    [q EXCEPT !.pc = "grUpdate"] @@ [average |-> Average(vis), count |-> Cardinality(vis)]]
    /\ events' = {}
    /\ UNCHANGED <<rateVars, now, chatVars, tripVars>>

(* updateGuideRating: User.findByIdAndUpdate of average and count; 201 *)
GR_Update(r) ==
    /\ req[r].pc = "grUpdate"
    /\ LET q == req[r]
       IN /\ guideInfo' = [guideInfo EXCEPT ![q.targetId] = [average |-> q.average, count |-> q.count]]
          /\ resp' = RateResp(201, q.user, q.targetType, q.targetId, q.rating, q.review)
    /\ req' = [req EXCEPT ![r] = Idle]
    /\ events' = {}
    /\ UNCHANGED <<ratings, orders, now, chatVars, tripVars>>

(* ---------------------------------------------------------------------- *)
(* RatingController.reportRating                                           *)
(* ---------------------------------------------------------------------- *)
Reporters(id) == {r \in Reqs : req[r].pc = "rrSave" /\ req[r].doc = id}

(* request arrives; Rating.findById; reportCount += 1 and the threshold test *)
(* are applied to the loaded copy                                           *)
RR_Find(r, id) ==
    /\ req[r].pc = "idle"
    /\ IF id \notin DOMAIN ratings
       THEN resp' = R("reportRating", 404) /\ UNCHANGED req
       ELSE /\ ratings[id].reportCount + Cardinality(Reporters(id)) < MaxReports
            /\ resp' = NoResp
            /\ req' = [req EXCEPT ![r] =
                 [pc |-> "rrSave", doc |-> id, count |-> ratings[id].reportCount + 1,
                  hide |-> ratings[id].reportCount + 1 >= HideThreshold]]
    /\ events' = {}
    /\ UNCHANGED <<rateVars, now, chatVars, tripVars>>

(* rating.save() writes the modified paths: reportCount, and isHidden when *)
(* the handler set it; 200                                                 *)
RR_Save(r) ==
    /\ req[r].pc = "rrSave"
    /\ LET q == req[r]
       IN ratings' = [ratings EXCEPT ![q.doc].reportCount = q.count,
                                     ![q.doc].isHidden = IF q.hide THEN TRUE ELSE @]
    /\ req' = [req EXCEPT ![r] = Idle]
    /\ resp' = R("reportRating", 200)
    /\ events' = {}
    /\ UNCHANGED <<guideInfo, orders, now, chatVars, tripVars>>

(* ====================================================================== *)
(* Order controller                                                        *)
(* ====================================================================== *)
(* the enum of Order.status, in the order of the delivery chain *)
OrderStatuses ==
    <<"pending", "confirmed", "shipped", "delivered", "completed", "cancelled", "refunded">>

ValidStatus(st) == st \in Range(OrderStatuses)

OrderCreators == {r \in Reqs : req[r].pc = "ocSave"}

(* the gear checks passed; new Order({... status: 'pending'}) *)
OC_Build(r, buyer, seller) ==
    /\ req[r].pc = "idle"
    /\ Len(orders) + Cardinality(OrderCreators) < MaxOrders
    /\ req' = [req EXCEPT ![r] = [pc |-> "ocSave", buyer |-> buyer, seller |-> seller]]
    /\ resp' = NoResp
    /\ events' = {}
    /\ UNCHANGED <<rateVars, now, chatVars, tripVars>>

(* order.save(); 201 *)
OC_Save(r) ==
    /\ req[r].pc = "ocSave"
    /\ orders' = Append(orders, [buyer |-> req[r].buyer, seller |-> req[r].seller,
                                 status |-> "pending", paymentStatus |-> "pending"])
    /\ req' = [req EXCEPT ![r] = Idle]
    /\ resp' = R("createOrder", 201)
    /\ events' = {}
    /\ UNCHANGED <<ratings, guideInfo, now, chatVars, tripVars>>

(* request arrives; Order.findById, User.findById, seller-or-admin check *)
UO_Find(r, u, o, status) ==
    /\ req[r].pc = "idle"
    /\ IF o \notin DOMAIN orders
       THEN resp' = R("updateOrderStatus", 404) /\ UNCHANGED req
       ELSE IF orders[o].seller # u /\ ~IsAdmin(u)
       THEN resp' = R("updateOrderStatus", 403) /\ UNCHANGED req
       ELSE /\ resp' = NoResp
            /\ req' = [req EXCEPT ![r] = [pc |-> "uoSave", doc |-> o, status |-> status]]
    /\ events' = {}
    /\ UNCHANGED <<rateVars, now, chatVars, tripVars>>

(* order.save() validates the status against the enum and writes it; 200, or 500 *)
UO_Save(r) ==
    /\ req[r].pc = "uoSave"
    /\ IF ValidStatus(req[r].status)
       THEN /\ orders' = [orders EXCEPT ![req[r].doc].status = req[r].status]
            /\ resp' = R("updateOrderStatus", 200)
       ELSE /\ UNCHANGED orders
            /\ resp' = R("updateOrderStatus", 500)
    /\ req' = [req EXCEPT ![r] = Idle]
    /\ events' = {}
    /\ UNCHANGED <<ratings, guideInfo, now, chatVars, tripVars>>

(* request arrives; Order.findById, buyer-or-seller check, stage check *)
CO_Find(r, u, o) ==
    /\ req[r].pc = "idle"
    /\ IF o \notin DOMAIN orders
       THEN resp' = R("cancelOrder", 404) /\ UNCHANGED req
       ELSE IF orders[o].buyer # u /\ orders[o].seller # u
       THEN resp' = R("cancelOrder", 403) /\ UNCHANGED req
       ELSE IF orders[o].status \notin {"pending", "confirmed"}
       THEN resp' = R("cancelOrder", 400) /\ UNCHANGED req
       ELSE /\ resp' = NoResp
            /\ req' = [req EXCEPT ![r] = [pc |-> "coSave", doc |-> o]]
    /\ events' = {}
    /\ UNCHANGED <<rateVars, now, chatVars, tripVars>>

(* order.save() writes status cancelled; 200 *)
CO_Save(r) ==
    /\ req[r].pc = "coSave"
    /\ orders' = [orders EXCEPT ![req[r].doc].status = "cancelled"]
    /\ req' = [req EXCEPT ![r] = Idle]
    /\ resp' = R("cancelOrder", 200)
    /\ events' = {}
    /\ UNCHANGED <<ratings, guideInfo, now, chatVars, tripVars>>

(* request arrives; Order.findById, User.findById, seller-or-admin check *)
PR_Find(r, u, o) ==
    /\ req[r].pc = "idle"
    /\ IF o \notin DOMAIN orders
       THEN resp' = R("processRefund", 404) /\ UNCHANGED req
       ELSE IF orders[o].seller # u /\ ~IsAdmin(u)
       THEN resp' = R("processRefund", 403) /\ UNCHANGED req
       ELSE /\ resp' = NoResp
            /\ req' = [req EXCEPT ![r] = [pc |-> "prSave", doc |-> o]]
    /\ events' = {}
    /\ UNCHANGED <<rateVars, now, chatVars, tripVars>>

(* order.save() writes status and paymentStatus refunded; 200 *)
PR_Save(r) ==
    /\ req[r].pc = "prSave"
    /\ orders' = [orders EXCEPT ![req[r].doc].status = "refunded",
                                ![req[r].doc].paymentStatus = "refunded"]
    /\ req' = [req EXCEPT ![r] = Idle]
    /\ resp' = R("processRefund", 200)
    /\ events' = {}
    /\ UNCHANGED <<ratings, guideInfo, now, chatVars, tripVars>>

(* ====================================================================== *)
(* Specifications                                                          *)
(* ====================================================================== *)
Init ==
    /\ now = 0
    /\ resp = NoResp
    /\ events = {}
    /\ req = [r \in Reqs |-> Idle]
    /\ chats = <<>>
    /\ messages = <<>>
    /\ trips = [t \in AllTripIds |-> NoTrip]
    /\ discussions = <<>>
    /\ ratings = <<>>
    /\ guideInfo = [g \in Guides |-> NoGuideRating]
    /\ orders = <<>>

NextChat ==
    \/ \E r \in Reqs, u \in Users, p \in Users \cup {GhostUser, MissingId} : CDC_Find(r, u, p)
    \/ \E r \in Reqs : CDC_Save(r)

SpecChat == Init /\ [][NextChat]_vars

(* a request names a trip that exists, or an id that no trip ever had *)
Targets == {t \in AllTripIds : trips[t].exists \/ t = BogusTrip}

Organizers == {"u1"}
Joiners == {"u2"}
CfChoices == {"undefined", "true", "false"}

(* the trip lifecycle that brings a trip, its participants and its discussion about *)
TripSetup ==
    \/ \E r \in Reqs, u \in Organizers, t \in TripIds, cf \in CfChoices,
          maxP \in MaxParticipantsChoices : CT_Save(r, u, t, cf, maxP)
    \/ \E r \in Reqs : CT_Disc(r)
    \/ \E r \in Reqs, u \in Joiners, t \in Targets : J_Find(r, u, t)
    \/ \E r \in Reqs : J_Save(r)
    \/ \E r \in Reqs : J_Msg(r)

DiscSend(Inputs) ==
    \/ \E r \in Reqs, u \in DiscUsers, t \in Targets, in \in Inputs :
          DS_Check(r, u, t, in[1], in[2])
    \/ \E r \in Reqs : DS_Push(r)
    \/ \E r \in Reqs : DS_Touch(r)

BlankInputs == {<<Missing, "text">>, <<Str(0, 0, 0), "text">>, <<Str(2, 0, 0), "text">>}

SendInputs ==
    BlankInputs \cup
    {<<Str(1, 1, 1), "text">>, <<Str(1, 1, 1), "system">>,
     <<Str(0, MaxContentLen, 0), "text">>, <<Str(0, MaxContentLen + 1, 0), "text">>}

NextSend ==
    \/ TripSetup
    \/ DiscSend(SendInputs)

SpecSend == Init /\ [][NextSend]_vars

(* the feature and access gate of sendMessage, with the clock running *)
NextGate ==
    \/ Tick
    \/ TripSetup
    \/ DiscSend({<<Str(1, 1, 1), "text">>})

SpecGate == Init /\ [][NextGate]_vars

Typing ==
    \/ \E r \in Reqs, u \in DiscUsers, t \in Targets, isTyping \in BOOLEAN : TY_Check(r, u, t, isTyping)
    \/ \E r \in Reqs : TY_Upsert(r)

Active == \E r \in Reqs, u \in DiscUsers, t \in TripIds : trips[t].exists /\ MA_Upsert(r, u, t)

GetDiscussion ==
    \/ \E r \in Reqs, u \in DiscUsers, t \in Targets : G_Trip(r, u, t, 1, DefaultLimit)
    \/ \E r \in Reqs : G_Find(r)
    \/ \E r \in Reqs : G_Save(r)

NextTrip ==
    \/ TripSetup
    \/ GetDiscussion
    \/ DiscSend({<<Str(1, 1, 1), "text">>})
    \/ Typing
    \/ Active

SpecTrip == Init /\ [][NextTrip]_vars

(* page, limit of the getDiscussion calls *)
PageChoices == {<<1, DefaultLimit>>, <<1, 2>>, <<2, 2>>}

(* a thread written by interleaved sendMessage requests and read back, with *)
(* the clock running                                                        *)
NextThread ==
    \/ Tick
    \/ \E r \in Reqs, t \in TripIds : CT_Save(r, "u1", t, "true", 2)
    \/ \E r \in Reqs : CT_Disc(r)
    \/ DiscSend({<<Str(1, 1, 1), "text">>})
    \/ \E r \in Reqs, u \in DiscUsers, t \in Targets, pl \in PageChoices : G_Trip(r, u, t, pl[1], pl[2])
    \/ \E r \in Reqs : G_Find(r)
    \/ \E r \in Reqs : G_Save(r)

SpecThread == Init /\ [][NextThread]_vars

ChatSetup ==
    \/ \E r \in Reqs : CDC_Find(r, "u1", "u2")
    \/ \E r \in Reqs : CDC_Save(r)

(* a participant of the chat between u1 and u2, and an outsider *)
ChatSendUsers == {"u1", "u3"}

ChatSend ==
    \/ \E r \in Reqs, u \in ChatSendUsers, c \in {0} \cup DOMAIN chats, content \in ChatContents :
          CS_Find(r, u, c, content, "text")
    \/ \E r \in Reqs : CS_SaveMsg(r)
    \/ \E r \in Reqs : CS_SaveChat(r)

NextMsg ==
    \/ \E r \in Reqs, t \in TripIds : CT_Save(r, "u1", t, "true", 2)
    \/ \E r \in Reqs : CT_Disc(r)
    \/ DiscSend(BlankInputs \cup {<<Str(1, 1, 1), "text">>})
    \/ ChatSetup
    \/ ChatSend

SpecMsg == Init /\ [][NextMsg]_vars

AnswerContents == {Missing, Str(1, 1, 0), Str(0, 2, 0)}

AnswerQuestion ==
    \/ \E r \in Reqs, u \in {"u2", "u3"}, m \in 0 .. Len(messages), a \in AnswerContents :
          AQ_Find(r, u, m, a)
    \/ \E r \in Reqs : AQ_Save(r)

(* questions and plain messages sent by u1 in the chat with u2, and answers *)
NextQA ==
    \/ ChatSetup
    \/ \E r \in Reqs, ty \in ChatMsgTypes : CS_Find(r, "u1", 1, Str(0, 1, 0), ty)
    \/ \E r \in Reqs : CS_SaveMsg(r)
    \/ \E r \in Reqs : CS_SaveChat(r)
    \/ AnswerQuestion

SpecQA == Init /\ [][NextQA]_vars

JoinUsers == {"u2", "u3"}
JoinCapacities == {1, 2}

(* trips of capacity one and two, joined by interleaved requests *)
NextJoin ==
    \/ \E r \in Reqs, t \in TripIds, cf \in {"true", "false"}, maxP \in JoinCapacities :
          CT_Save(r, "u1", t, cf, maxP)
    \/ \E r \in Reqs : CT_Disc(r)
    \/ \E r \in Reqs, u \in JoinUsers, t \in Targets : J_Find(r, u, t)
    \/ \E r \in Reqs : J_Save(r)
    \/ \E r \in Reqs : J_Msg(r)

SpecJoin == Init /\ [][NextJoin]_vars

(* page, limit of the getChatMessages calls *)
ChatPageChoices == {<<1, ChatPageLimit>>, <<1, 2>>, <<2, 2>>}

(* u1 is in the chat with u2 and sends; u3 is an outsider *)
ChatReaders == {"u1", "u3"}

ReadChat ==
    \/ \E r \in Reqs, u \in ChatReaders, c \in {0} \cup DOMAIN chats : GD_Find(r, u, c)
    \/ \E r \in Reqs, u \in ChatReaders, c \in {0} \cup DOMAIN chats, pl \in ChatPageChoices :
          GM_Chat(r, u, c, pl[1], pl[2])
    \/ \E r \in Reqs : GM_Find(r)
    \/ \E r \in Reqs : GM_Count(r)

DeleteMessage ==
    \/ \E r \in Reqs, u \in ChatReaders, m \in 0 .. Len(messages) : DM_Find(r, u, m)
    \/ \E r \in Reqs : DM_Save(r)

(* messages of one chat sent, read back and deleted *)
NextDelete ==
    \/ ChatSetup
    \/ \E r \in Reqs, u \in ChatReaders, c \in {0} \cup DOMAIN chats :
          CS_Find(r, u, c, Str(0, 1, 0), "text")
    \/ \E r \in Reqs : CS_SaveMsg(r)
    \/ \E r \in Reqs : CS_SaveChat(r)
    \/ ReadChat
    \/ DeleteMessage

SpecDelete == Init /\ [][NextDelete]_vars

(* the access checks of the chat endpoints: the participant u1 and the      *)
(* outsider u3; sends arrive on one connection, deletions on the other      *)
NextAccess ==
    \/ ChatSetup
    \/ \E u \in ChatReaders, c \in DOMAIN chats : CS_Find("r1", u, c, Str(0, 1, 0), "text")
    \/ CS_SaveMsg("r1")
    \/ CS_SaveChat("r1")
    \/ \E r \in Reqs, u \in ChatReaders, c \in DOMAIN chats : GD_Find(r, u, c)
    \/ \E r \in Reqs, u \in ChatReaders, c \in DOMAIN chats : GM_Chat(r, u, c, 1, ChatPageLimit)
    \/ \E r \in Reqs : GM_Find(r)
    \/ \E r \in Reqs : GM_Count(r)
    \/ \E u \in ChatReaders, m \in DOMAIN messages : DM_Find("r2", u, m)
    \/ DM_Save("r2")

SpecAccess == Init /\ [][NextAccess]_vars

(* the organizer u1 lists u2 as a participant, pending or confirmed, or empties the list *)
ParticipantBodies ==
    {[participants |-> <<[user |-> "u2", status |-> st]>>] : st \in {"pending", "confirmed"}}
    \cup {[participants |-> <<>>]}

(* getDiscussion by the organizer and by u2 on trips with and without a Discussion *)
NextGet ==
    \/ \E r \in Reqs, t \in TripIds, cf \in CfChoices : CT_Save(r, "u1", t, cf, 2)
    \/ \E r \in Reqs : CT_Disc(r)
    \/ \E r \in Reqs, t \in Targets, b \in ParticipantBodies : UT_Find(r, "u1", t, b)
    \/ \E r \in Reqs : UT_Save(r)
    \/ \E r \in Reqs, u \in DiscUsers, t \in AllTripIds : G_Trip(r, u, t, 1, DefaultLimit)
    \/ \E r \in Reqs : G_Find(r)
    \/ \E r \in Reqs : G_Save(r)

SpecGet == Init /\ [][NextGet]_vars

(* the organizer u1, the user u2 and the admin u3 *)
DeleteTrip ==
    \/ \E r \in Reqs, u \in Users, t \in AllTripIds : DT_Find(r, u, t)
    \/ \E r \in Reqs : DT_Disc(r)
    \/ \E r \in Reqs : DT_Trip(r)

(* a trip created, read and deleted *)
NextRemove ==
    \/ \E r \in Reqs, t \in TripIds, cf \in {"true", "false"} : CT_Save(r, "u1", t, cf, 2)
    \/ \E r \in Reqs : CT_Disc(r)
    \/ \E r \in Reqs, t \in Targets : G_Trip(r, "u1", t, 1, DefaultLimit)
    \/ \E r \in Reqs : G_Find(r)
    \/ \E r \in Reqs : G_Save(r)
    \/ DeleteTrip

SpecRemove == Init /\ [][NextRemove]_vars

(* a trip created by u1, joined by u2, approved (or not) by the admin u3, and listed *)
NextPublic ==
    \/ \E r \in Reqs, t \in TripIds, cf \in {"true", "false"} : CT_Save(r, "u1", t, cf, 2)
    \/ \E r \in Reqs : CT_Disc(r)
    \/ \E r \in Reqs, t \in Targets : J_Find(r, "u2", t)
    \/ \E r \in Reqs : J_Save(r)
    \/ \E r \in Reqs : J_Msg(r)
    \/ \E r \in Reqs, u \in {"u1", "u3"}, t \in AllTripIds : AP_Approve(r, u, t)
    \/ \E r \in Reqs : GA_Find(r)
    \/ \E r \in Reqs : GA_Count(r)

SpecPublic == Init /\ [][NextPublic]_vars

ReadUsers == {"u1", "u2"}

(* the chats of u1 with u2 and with u3, messages of u1 and u2 sent on one    *)
(* connection, and markAsRead calls on the other                            *)
NextRead ==
    \/ \E p \in {"u2", "u3"} : CDC_Find("r2", "u1", p)
    \/ CDC_Save("r2")
    \/ \E u \in ReadUsers, c \in DOMAIN chats : CS_Find("r1", u, c, Str(0, 1, 0), "text")
    \/ CS_SaveMsg("r1")
    \/ CS_SaveChat("r1")
    \/ \E u \in ReadUsers, c \in {0} \cup DOMAIN chats : MR_Update("r2", u, c)

SpecRead == Init /\ [][NextRead]_vars

(* presence written by updateTypingStatus and markUserActive, with the clock running *)
NextActive ==
    \/ Tick
    \/ \E r \in Reqs, t \in TripIds : CT_Save(r, "u1", t, "true", 2)
    \/ \E r \in Reqs : CT_Disc(r)
    \/ \E r \in Reqs, t \in Targets, isTyping \in BOOLEAN : TY_Check(r, "u1", t, isTyping)
    \/ \E r \in Reqs : TY_Upsert(r)
    \/ \E r \in Reqs, u \in DiscUsers, t \in Targets : MA_Upsert(r, u, t)

SpecActive == Init /\ [][NextActive]_vars

(* sendMessage of both services with a real-time channel whose emit may throw *)
NextPublish ==
    \/ \E t \in TripIds : CT_Save("r1", "u1", t, "true", 2)
    \/ CT_Disc("r1")
    \/ \E t \in Targets : DS_Check("r1", "u1", t, Str(1, 1, 1), "text")
    \/ DS_Push("r1")
    \/ DS_Touch("r1")
    \/ DS_TouchThrow("r1")
    \/ ChatSetup
    \/ \E c \in DOMAIN chats : CS_Find("r2", "u1", c, Str(0, 1, 0), "text")
    \/ CS_SaveMsg("r2")
    \/ CS_SaveChat("r2")
    \/ \E k \in 1 .. 2 : CS_SaveChatThrow("r2", k)

SpecPublish == Init /\ [][NextPublish]_vars

LeaveTrip ==
    \/ \E r \in Reqs, u \in JoinUsers, t \in Targets : L_Find(r, u, t)
    \/ \E r \in Reqs : L_Save(r)
    \/ \E r \in Reqs : L_Msg(r)

UpdateItinerary ==
    \/ \E r \in Reqs, u \in {"u1", "u3"}, t \in Targets : UI_Find(r, u, t, "plan")
    \/ \E r \in Reqs : UI_Save(r)
    \/ \E r \in Reqs : UI_Msg(r)

(* a trip with or without discussions, joined by u2, left by u2 and u3, and *)
(* its itinerary edited by the organizer                                    *)
NextCollab ==
    \/ \E r \in Reqs, t \in TripIds, cf \in {"true", "false"} : CT_Save(r, "u1", t, cf, 2)
    \/ \E r \in Reqs : CT_Disc(r)
    \/ \E r \in Reqs, t \in Targets : J_Find(r, "u2", t)
    \/ \E r \in Reqs : J_Save(r)
    \/ \E r \in Reqs : J_Msg(r)
    \/ LeaveTrip
    \/ UpdateItinerary

SpecCollab == Init /\ [][NextCollab]_vars

StatusInputs == Range(OrderStatuses) \cup {"returned"}

(* an order of buyer u1 from seller u2, handled by buyer, seller and the admin u3 *)
NextOrder ==
    \/ \E r \in Reqs : OC_Build(r, "u1", "u2")
    \/ \E r \in Reqs : OC_Save(r)
    \/ \E r \in Reqs, u \in Users, o \in 0 .. Len(orders), st \in StatusInputs : UO_Find(r, u, o, st)
    \/ \E r \in Reqs : UO_Save(r)
    \/ \E r \in Reqs, u \in Users, o \in 0 .. Len(orders) : CO_Find(r, u, o)
    \/ \E r \in Reqs : CO_Save(r)
    \/ \E r \in Reqs, u \in Users, o \in 0 .. Len(orders) : PR_Find(r, u, o)
    \/ \E r \in Reqs : PR_Save(r)

SpecOrder == Init /\ [][NextOrder]_vars

(* request bodies of updateTrip that name fields of the Trip document *)
TripBodies ==
    {[isApproved |-> TRUE], [organizer |-> "u2"], [status |-> "active"],
     [isApproved |-> FALSE, isPublic |-> FALSE]}

(* trips of u1 and u2, updated by any user and approved by any user *)
NextApprove ==
    \/ \E r \in Reqs, u \in Organizers, t \in TripIds : CT_Save(r, u, t, "true", 2)
    \/ \E r \in Reqs : CT_Disc(r)
    \/ \E r \in Reqs, u \in Users, t \in Targets, b \in TripBodies : UT_Find(r, u, t, b)
    \/ \E r \in Reqs : UT_Save(r)
    \/ \E r \in Reqs, u \in Users, t \in Targets : AP_Approve(r, u, t)

SpecApprove == Init /\ [][NextApprove]_vars

(* reviewer, targetType, targetId of the createRating calls *)
RatingCalls ==
    {<<"u1", "guide", "u2">>, <<"u3", "guide", "u2">>, <<"u1", "trip", "t1">>,
     <<"u3", "guide", "u1">>, <<"u1", "destination", "t1">>}

(* rating, review of the createRating calls *)
RatingInputs ==
    {<<1, Missing>>, <<5, Str(0, 10, 0)>>, <<6, Missing>>, <<5, Str(0, MaxReviewLen + 1, 0)>>}

CreateRating(Calls, Inputs) ==
    \/ \E r \in Reqs, c \in Calls, in \in Inputs :
          CR_Find(r, c[1], c[2], c[3], in[1], in[2])
    \/ \E r \in Reqs : CR_Update(r)
    \/ \E r \in Reqs : CR_Insert(r)
    \/ \E r \in Reqs : GR_Find(r)
    \/ \E r \in Reqs : GR_Update(r)

NextRating ==
    \/ \E r \in Reqs : CT_Save(r, "u1", "t1", "false", 2)
    \/ CreateRating(RatingCalls, RatingInputs)

SpecRating == Init /\ [][NextRating]_vars

Report ==
    \/ \E r \in Reqs, id \in 0 .. Len(ratings) : RR_Find(r, id)
    \/ \E r \in Reqs : RR_Save(r)

NextReport ==
    \/ CreateRating({<<"u1", "guide", "u2">>}, {<<5, Missing>>, <<1, Missing>>})
    \/ Report

SpecReport == Init /\ [][NextReport]_vars

(* ====================================================================== *)
(* Properties                                                              *)
(* ====================================================================== *)

(* C1: at most one direct chat exists for each unordered pair of users,    *)
(* also after interleaved createDirectChat requests for the same pair.     *)
C1_OneDirectChatPerPair ==
    \A a \in Users, b \in Users : a # b => Cardinality(DirectChatsBetween(a, b)) <= 1

(* C2: createDirectChat(B, A) called right after createDirectChat(A, B)    *)
(* completed, with one direct chat between A and B and no other request in *)
(* flight, creates no chat, answers 200 with the chat the first call       *)
(* returned, and the pair still has exactly that one direct chat.          *)
C2_ReversedCallReturnsSameChat ==
    (resp.op = "createDirectChat" /\ resp.first # 0) =>
        /\ resp.status = 200
        /\ resp.chat = resp.first
        /\ DirectChatsBetween(resp.user, resp.other) = {resp.first}
        /\ \A r \in Reqs : req[r].pc # "cdcSave" \/ {req[r].user, req[r].other} # {resp.user, resp.other}

C2_Witness ==
    /\ resp.op = "createDirectChat"
    /\ resp.first # 0
    /\ resp.status = 200
    /\ chats[resp.first].participants = <<resp.other, resp.user>>

LongMessages ==
    {<<i, j>> \in (DOMAIN discussions) \X (1 .. MaxMsgs + 2) :
        j <= Len(discussions[i].messages) /\ StrLen(discussions[i].messages[j].content) > MaxContentLen}

(* the step is the first step of a Discussion sendMessage request in slot r *)
BeganSend(r) ==
    /\ req[r].pc = "idle"
    /\ req'[r].pc = "dsPush" \/ (req' = req /\ resp'.op = "sendMessage")

(* the step is the first step of a Chat sendMessage request in slot r *)
BeganChatSend(r) ==
    /\ req[r].pc = "idle"
    /\ req'[r].pc = "csSaveMsg" \/ (req' = req /\ resp'.op = "chatSend")

(* the step is the first step of an updateTypingStatus request in slot r *)
BeganTyping(r) ==
    /\ req[r].pc = "idle"
    /\ req'[r].pc = "tyUpsert" \/ (req' = req /\ resp'.op = "updateTypingStatus")

NonBlankInput(c) == c.defined /\ c.body > 0

BlankInput(c) == ~c.defined \/ c.body = 0

(* C3: Discussion sendMessage by an authorized caller with content longer  *)
(* than 1000 characters answers 400 and appends nothing; with exactly 1000 *)
(* characters it goes on to append the message.                            *)
C3_LengthLimit ==
    [][/\ \A r \in Reqs : BeganSend(r) =>
            \A u \in DiscUsers, t \in TripIds, c \in DiscContents, ty \in DiscMsgTypes :
               (/\ NonBlankInput(c)
                /\ trips[t].exists /\ trips[t].allowDiscussions /\ CanAccess(trips[t], u)
                /\ DS_Check(r, u, t, c, ty))
               => IF StrLen(c) > MaxContentLen
                  THEN resp' = R("sendMessage", 400) /\ UNCHANGED <<req, tripVars>>
                  ELSE req'[r].pc = "dsPush"
       /\ LongMessages' = {}]_vars

SystemTypes == {"system", "itinerary_update", "user_joined", "user_left"}

RECURSIVE SystemCount(_, _)
SystemCount(ds, n) ==
    IF n = 0 THEN 0
    ELSE Cardinality({j \in DOMAIN ds[n].messages : ds[n].messages[j].messageType \in SystemTypes})
         + SystemCount(ds, n - 1)

(* C5: no step of a sendMessage request adds a message of type system,     *)
(* itinerary_update, user_joined or user_left to a Discussion.             *)
C5_NoSystemMessageFromCallers ==
    [][(\E r \in Reqs : DS_Push(r)) =>
          SystemCount(discussions', Len(discussions')) = SystemCount(discussions, Len(discussions))]_vars

(* C6: updateTypingStatus is authorized exactly when sendMessage is: 403   *)
(* with nothing changed and nothing published when discussions are off or  *)
(* the caller is neither organizer nor confirmed participant, and it goes  *)
(* on to the upsert otherwise.                                             *)
C6_TypingAuthorizedLikeSend ==
    [][\A r \in Reqs : BeganTyping(r) =>
          \A u \in DiscUsers, t \in TripIds, ty \in BOOLEAN :
             (trips[t].exists /\ TY_Check(r, u, t, ty))
             => IF ~DiscussionsDisabled(trips[t]) /\ CanAccess(trips[t], u)
                THEN req'[r].pc = "tyUpsert"
                ELSE /\ resp' = R("updateTypingStatus", 403)
                     /\ req'[r].pc = "idle"
                     /\ UNCHANGED tripVars
                     /\ events' = {}]_vars

(* C7: once createTrip has completed, a trip with discussions enabled has  *)
(* exactly one Discussion document.                                        *)
C7_OneDiscussionPerTrip ==
    \A t \in TripIds :
        (/\ trips[t].exists
         /\ trips[t].allowDiscussions
         /\ \A r \in Reqs : ~(req[r].pc = "ctDisc" /\ req[r].trip = t))
        => Cardinality(DiscussionsOf(t)) = 1

Count(ms, m) == Cardinality({i \in DOMAIN ms : ms[i] = m})

SameMessages(a, b) ==
    /\ Len(a) = Len(b)
    /\ \A i \in DOMAIN a : Count(a, a[i]) = Count(b, a[i])

IsPrefix(a, b) == Len(a) <= Len(b) /\ SubSeq(b, 1, Len(a)) = a

NonDecreasing(ms) == \A i \in 1 .. Len(ms) - 1 : ms[i].timestamp <= ms[i + 1].timestamp

StrictlyAscending(ms) == \A i \in 1 .. Len(ms) - 1 : ms[i].timestamp < ms[i + 1].timestamp

(* a sendMessage push stores the message in the trip's first Discussion,   *)
(* stored messages stay, and a getDiscussion that finds the Discussion and *)
(* whose window covers the thread returns exactly the stored messages, in  *)
(* an order that satisfies Ordered                                         *)
RoundTrip(Ordered(_)) ==
    /\ \A r \in Reqs : (req[r].pc = "dsPush" /\ DS_Push(r)) =>
          LET i == FindDiscussionIn(discussions', req[r].trip)
          IN i # 0 /\ Count(discussions'[i].messages, req[r].msg) > 0
    /\ \A i \in DOMAIN discussions :
          /\ i \in DOMAIN discussions'
          /\ discussions'[i].trip = discussions[i].trip
          /\ IsPrefix(discussions[i].messages, discussions'[i].messages)
    /\ \A r \in Reqs : (req[r].pc = "gFind" /\ G_Find(r) /\ resp'.status = 200) =>
          LET thread == discussions[FindDiscussion(req[r].trip)].messages
          IN /\ Ordered(resp'.messages)
             /\ (req[r].page = 1 /\ req[r].limit >= Len(thread))
                   => SameMessages(resp'.messages, thread)

(* C11 as stated: the returned sequence is strictly ascending by timestamp. *)
C11_StrictlyAscending == [][RoundTrip(StrictlyAscending)]_vars

(* C11, amended: a message appended by a successful sendMessage on T is    *)
(* returned by every later getDiscussion on T whose window covers the      *)
(* thread, and the returned sequence is ascending by timestamp, messages   *)
(* of equal timestamp in stored order (also after interleaved appends).    *)
C11_AscendingRoundTrip == [][RoundTrip(NonDecreasing)]_vars

C11_Witness ==
    /\ resp.op = "getDiscussion"
    /\ resp.status = 200
    /\ Len(resp.messages) = 3
    /\ \E i \in DOMAIN discussions :
          /\ SameMessages(resp.messages, discussions[i].messages)
          /\ resp.messages # discussions[i].messages
          /\ \E j \in DOMAIN resp.messages : resp.messages[j].messageType = "text"

(* the step is the first step of an answerQuestion request in slot r *)
BeganAnswer(r) ==
    /\ req[r].pc = "idle"
    /\ req'[r].pc = "aqSave" \/ (req' = req /\ resp'.op = "answerQuestion")

(* C12: an answered question keeps its answer, answeredBy and answeredAt   *)
(* and no answerQuestion save is applied to it again (also when two        *)
(* requests for the question interleave); answerQuestion on an answered    *)
(* question or on a message that is no question answers 400 and changes    *)
(* nothing.                                                                *)
C12_AnsweredOnce ==
    [][/\ \A m \in DOMAIN messages : messages[m].isAnswered =>
            /\ messages'[m].isAnswered
            /\ messages'[m].answer = messages[m].answer
            /\ messages'[m].answeredBy = messages[m].answeredBy
            /\ messages'[m].answeredAt = messages[m].answeredAt
       /\ \A r \in Reqs : (req[r].pc = "aqSave" /\ AQ_Save(r)) => ~messages[req[r].doc].isAnswered
       /\ \A r \in Reqs : BeganAnswer(r) =>
            \A u \in Users, m \in DOMAIN messages, a \in AnswerContents :
               (/\ NonBlankInput(a)
                /\ messages[m].messageType # "question" \/ messages[m].isAnswered
                /\ AQ_Find(r, u, m, a))
               => /\ resp' = R("answerQuestion", 400)
                  /\ UNCHANGED <<req, chatVars>>]_vars

(* the step is the first step of a joinTrip request in slot r *)
BeganJoin(r) ==
    /\ req[r].pc = "idle"
    /\ req'[r].pc = "jSave" \/ (req' = req /\ resp'.op = "joinTrip")

NotJoinable(u, t) ==
    \/ trips[t].currentParticipants >= trips[t].maxParticipants
    \/ trips[t].status \in {"completed", "cancelled"}
    \/ \E i \in DOMAIN trips[t].participants : trips[t].participants[i].user = u

(* C13: after every step currentParticipants of a trip is at most its      *)
(* maxParticipants and no user is twice in its participants (also when     *)
(* joinTrip requests interleave); joinTrip on a trip that is full, already *)
(* joined by the caller, or completed or cancelled answers 400 and changes *)
(* nothing.                                                                *)
C13_CapacityAndUniqueJoin ==
    [][/\ \A t \in TripIds : trips'[t].exists =>
            /\ trips'[t].currentParticipants <= trips'[t].maxParticipants
            /\ \A i, j \in DOMAIN trips'[t].participants :
                  i # j => trips'[t].participants[i].user # trips'[t].participants[j].user
       /\ \A r \in Reqs : BeganJoin(r) =>
            \A u \in Users, t \in TripIds :
               (trips[t].exists /\ NotJoinable(u, t) /\ J_Find(r, u, t))
               => /\ resp' = R("joinTrip", 400)
                  /\ UNCHANGED <<req, tripVars>>]_vars

(* C14: a message stays stored with its content, a message flagged        *)
(* deleted stays flagged, deleteMessage sets the flag and leaves the       *)
(* content alone, and no message returned by getChatMessages is flagged    *)
(* deleted.                                                                *)
C14_DeletedNeverReturned ==
    [][/\ \A m \in DOMAIN messages :
            /\ m \in DOMAIN messages'
            /\ messages'[m].content = messages[m].content
            /\ messages[m].isDeleted => messages'[m].isDeleted
       /\ \A r \in Reqs : (req[r].pc = "dmSave" /\ DM_Save(r)) => messages'[req[r].doc].isDeleted
       /\ (resp'.op = "getChatMessages" /\ resp'.status = 200) =>
            \A i \in DOMAIN resp'.messages : ~resp'.messages[i].isDeleted]_vars

(* the step is a getChatDetails request in slot r *)
BeganDetails(r) == req[r].pc = "idle" /\ req' = req /\ resp'.op = "getChatDetails"

(* the step is the first step of a getChatMessages request in slot r *)
BeganMessages(r) ==
    /\ req[r].pc = "idle"
    /\ req'[r].pc = "gmFind" \/ (req' = req /\ resp'.op = "getChatMessages")

(* the step is the first step of a deleteMessage request in slot r *)
BeganDelete(r) ==
    /\ req[r].pc = "idle"
    /\ req'[r].pc = "dmSave" \/ (req' = req /\ resp'.op = "deleteMessage")

Outsider(u, c) == c \in DOMAIN chats /\ u \notin ParticipantSet(chats[c])

Refused(st) ==
    /\ resp'.status = st
    /\ req' = req
    /\ UNCHANGED chatVars
    /\ events' = {}

BeganGet(r) ==
    /\ req[r].pc = "idle"
    /\ req'[r].pc = "gFind" \/ (req' = req /\ resp'.op = "getDiscussion")

Unauthorized(u, t) ==
    /\ trips[t].exists
    /\ trips[t].organizer # u
    /\ [user |-> u, status |-> "confirmed"] \notin Range(trips[t].participants)

Denied(st) ==
    /\ resp'.status = st
    /\ req' = req
    /\ UNCHANGED tripVars
    /\ events' = {}

(* C16: getDiscussion answers 404 for a trip that does not exist and 403   *)
(* for a caller who is neither the organizer nor a participant with status *)
(* confirmed, and then creates no Discussion and changes nothing; for an   *)
(* authorized caller whose trip has no Discussion it stores one new        *)
(* Discussion for the trip holding exactly one message, of type system,    *)
(* and stores none when the trip has one.                                  *)
C16_GetDiscussionGate ==
    [][/\ \A r \in Reqs : BeganGet(r) =>
            /\ \/ Denied(404)
               \/ ~ \E u \in Users, t \in AllTripIds :
                       ~trips[t].exists /\ G_Trip(r, u, t, 1, DefaultLimit)
            /\ \/ Denied(403)
               \/ ~ \E u \in Users, t \in AllTripIds :
                       Unauthorized(u, t) /\ G_Trip(r, u, t, 1, DefaultLimit)
            /\ UNCHANGED tripVars
       /\ \A r \in Reqs : (req[r].pc = "gFind" /\ G_Find(r)) =>
            /\ UNCHANGED tripVars
            /\ req'[r].pc = "gSave" <=> DiscussionsOf(req[r].trip) = {}
       /\ \A r \in Reqs : (req[r].pc = "gSave" /\ G_Save(r)) =>
            /\ Len(discussions') = Len(discussions) + 1
            /\ SubSeq(discussions', 1, Len(discussions)) = discussions
            /\ LET d == discussions'[Len(discussions')]
               IN /\ d.trip = req[r].trip
                  /\ Len(d.messages) = 1
                  /\ d.messages[1].messageType = "system"
                  /\ d.messages[1].author = req[r].user
            /\ resp'.status = 200]_vars

C16_Witness ==
    /\ resp = R("getDiscussion", 403)
    /\ [user |-> "u2", status |-> "pending"] \in Range(trips["t1"].participants)
    /\ \E i \in DOMAIN discussions :
          /\ discussions[i].trip = "t1"
          /\ discussions[i].messages[1].content = Str(0, 33, 0)

(* the step is the first step of a createTrip request in slot r *)
BeganCreate(r) ==
    /\ req[r].pc = "idle"
    /\ \E t \in TripIds : ~trips[t].exists /\ trips'[t].exists

SeededBy(d, t, u) ==
    /\ d.trip = t
    /\ Len(d.messages) = 1
    /\ d.messages[1].messageType = "system"
    /\ d.messages[1].author = u

(* C17: createTrip enables discussions unless allowDiscussions is false in *)
(* the body; at the step that completes a createTrip with discussions      *)
(* enabled, a Discussion of the new trip exists that holds exactly one     *)
(* message, of type system, authored by the organizer; a createTrip with   *)
(* allowDiscussions false completes at once and stores no Discussion.      *)
C17_CreateTripSeedsDiscussion ==
    [][/\ \A r \in Reqs : BeganCreate(r) =>
            \A t \in TripIds, cf \in CfChoices :
               CT_Save(r, "u1", t, cf, 2) =>
                  /\ trips'[t].allowDiscussions <=> cf # "false"
                  /\ discussions' = discussions
                  /\ IF cf = "false"
                     THEN resp' = R("createTrip", 201) /\ req'[r].pc = "idle"
                     ELSE resp' = NoResp /\ req'[r].pc = "ctDisc" /\ req'[r].trip = t
       /\ \A r \in Reqs : (req[r].pc = "ctDisc" /\ CT_Disc(r)) =>
            /\ resp' = R("createTrip", 201)
            /\ \E i \in DOMAIN discussions' :
                  SeededBy(discussions'[i], req[r].trip, trips'[req[r].trip].organizer)
       /\ (resp'.op = "createTrip" /\ resp'.status = 201) =>
            \E r \in Reqs :
               \/ req[r].pc = "ctDisc" /\ req'[r].pc = "idle"
               \/ /\ req[r].pc = "idle"
                  /\ \E t \in TripIds : ~trips[t].exists /\ trips'[t].exists
                                         /\ ~trips'[t].allowDiscussions]_vars

C17_Witness ==
    /\ resp = R("createTrip", 201)
    /\ trips["t1"].allowDiscussions
    /\ Cardinality(DiscussionsOf("t1")) = 2
    /\ \E i \in DiscussionsOf("t1") : SeededBy(discussions[i], "t1", "u1")
                                      /\ discussions[i].messages[1].content = Str(0, 81, 0)

(* the step is the first step of a deleteTrip request in slot r *)
BeganDeleteTrip(r) ==
    /\ req[r].pc = "idle"
    /\ req'[r].pc = "dtDisc" \/ (req' = req /\ resp'.op = "deleteTrip")

(* C18: at the step that completes a deleteTrip of trip T by its organizer *)
(* or an admin, T is removed and no Discussion refers to T; deleteTrip by  *)
(* any other user answers 403 and removes neither the trip nor a           *)
(* Discussion.                                                             *)
C18_DeleteCascades ==
    [][/\ \A r \in Reqs : (req[r].pc = "dtTrip" /\ DT_Trip(r)) =>
            /\ resp'.status = 200
            /\ ~trips'[req[r].trip].exists
            /\ \A i \in DOMAIN discussions' : discussions'[i].trip # req[r].trip
       /\ \A r \in Reqs : BeganDeleteTrip(r) =>
            \/ Denied(403)
            \/ ~ \E u \in Users, t \in TripIds :
                    /\ trips[t].exists
                    /\ trips[t].organizer # u
                    /\ u \notin Admins
                    /\ DT_Find(r, u, t)]_vars

(* C19: no trip returned by getAllTrips has isApproved false; every event *)
(* sent to all clients (tripCreated, the global tripUpdated) carries a     *)
(* trip whose isApproved is true; tripCreated is sent only by an           *)
(* approveTrip step on that trip.                                          *)
C19_UnapprovedNeverPublic ==
    [][/\ (resp'.op = "getAllTrips" /\ resp'.status = 200) =>
            \A x \in resp'.trips : x.isApproved
       /\ \A e \in events' : e.room = "all" =>
            /\ trips'[e.to].exists
            /\ trips'[e.to].isApproved
       /\ \A e \in events' : e.name = "tripCreated" =>
            /\ resp' = R("approveTrip", 200)
            /\ trips'[e.to].isApproved]_vars

(* C20: a markAsRead(chat, u) step adds u to the read-set of every message *)
(* of that chat not sent by u, changes no message sent by u and no message *)
(* of another chat, adds and removes no message, and a second call right   *)
(* after it would change nothing.                                          *)
C20_MarkAsRead ==
    [][resp'.op = "markAsRead" =>
         LET c == resp'.chat
             u == resp'.user
         IN /\ DOMAIN messages' = DOMAIN messages
            /\ \A i \in DOMAIN messages :
                  messages'[i] =
                     IF messages[i].chat = c /\ messages[i].sender # u
                     THEN [messages[i] EXCEPT !.readBy = @ \cup {u}]
                     ELSE messages[i]
            /\ \A i \in DOMAIN messages' :
                  (messages'[i].chat = c /\ messages'[i].sender # u) => u \in messages'[i].readBy
            /\ MarkRead(messages', c, u) = messages'
            /\ UNCHANGED <<chats, req>>]_vars

C20_Witness ==
    /\ resp.op = "markAsRead"
    /\ \E i, j, k \in DOMAIN messages :
          /\ messages[i].chat = resp.chat /\ messages[i].sender # resp.user
          /\ resp.user \in messages[i].readBy
          /\ messages[j].chat = resp.chat /\ messages[j].sender = resp.user
          /\ resp.user \notin messages[j].readBy
          /\ messages[k].chat # resp.chat /\ messages[k].sender # resp.user
          /\ resp.user \notin messages[k].readBy

(* C21: a markUserActive step by user u on trip t leaves the presence     *)
(* entry of u in the trip's Discussion at isTyping false with lastSeen the *)
(* time of the call, appends no message and publishes no event, and        *)
(* changes nothing else of the entry's Discussion (so a second call right  *)
(* after differs from the first in lastSeen at most).                      *)
C21_MarkUserActive ==
    [][\A r \in Reqs :
          (req[r].pc = "idle" /\ req' = req /\ resp'.op = "markUserActive") =>
             \A u \in DiscUsers, t \in AllTripIds :
                MA_Upsert(r, u, t) =>
                   LET i == FindDiscussionIn(discussions', t)
                   IN /\ i # 0
                      /\ discussions'[i].activeUsers[u] = [lastSeen |-> now, isTyping |-> FALSE]
                      /\ \A x \in DiscUsers \ {u} :
                            discussions'[i].activeUsers[x] =
                               IF i \in DOMAIN discussions
                               THEN discussions[i].activeUsers[x] ELSE NoPresence
                      /\ discussions'[i].messages =
                            IF i \in DOMAIN discussions THEN discussions[i].messages ELSE <<>>
                      /\ \A j \in DOMAIN discussions : j # i => discussions'[j] = discussions[j]
                      /\ events' = {}
                      /\ UNCHANGED trips]_vars

(* C22: the step of a Discussion sendMessage or Chat sendMessage that     *)
(* publishes, after the message is stored, ends the request with the       *)
(* success response 201 whatever becomes of the publish.                   *)
C22_PublishFailureNotSurfaced ==
    [][\A r \in Reqs :
          (req[r].pc \in {"dsTouch", "csSaveChat"} /\ req'[r].pc = "idle") => resp'.status = 201]_vars

MessagesOfChat(c) == {m \in DOMAIN messages : messages[m].chat = c}

Max(S) == CHOOSE x \in S : \A y \in S : y <= x

(* C23: whenever no Chat sendMessage request is in progress on a chat that *)
(* has a message, the chat's lastMessage is the message of the chat that   *)
(* was stored last.                                                        *)
C23_LastMessageIsNewest ==
    \A c \in DOMAIN chats :
        (/\ MessagesOfChat(c) # {}
         /\ \A r \in Reqs : ~(req[r].pc \in {"csSaveMsg", "csSaveChat"} /\ req[r].chat = c))
        => chats[c].lastMessage = Max(MessagesOfChat(c))

Gained(t, type, u) ==
    LET i == FindDiscussion(t)
    IN /\ i # 0
       /\ Len(discussions'[i].messages) = Len(discussions[i].messages) + 1
       /\ discussions'[i].messages[Len(discussions'[i].messages)].messageType = type
       /\ discussions'[i].messages[Len(discussions'[i].messages)].author = u
       /\ \A j \in DOMAIN discussions : j # i => discussions'[j] = discussions[j]

Completes(r, from, op) ==
    /\ req[r].pc = from
    /\ req'[r].pc = "idle"
    /\ resp' = R(op, 200)

(* C24: the step that completes a successful joinTrip, leaveTrip or        *)
(* updateItinerary on a trip with discussions enabled appends exactly one  *)
(* message to the trip's Discussion, of type user_joined, user_left or     *)
(* itinerary_update, authored by the acting user, and publishes userJoined,*)
(* userLeft or itineraryUpdated to the trip room; with discussions         *)
(* disabled it appends nothing; the save of a successful joinTrip          *)
(* increases currentParticipants by exactly 1.                             *)
C24_CollaborationMessages ==
    [][\A r \in Reqs :
          /\ Completes(r, "jMsg", "joinTrip") =>
                /\ Gained(req[r].trip, "user_joined", req[r].user)
                /\ TripRoom("userJoined", req[r].trip) \in events'
          /\ Completes(r, "lMsg", "leaveTrip") =>
                /\ Gained(req[r].trip, "user_left", req[r].user)
                /\ TripRoom("userLeft", req[r].trip) \in events'
          /\ Completes(r, "uiMsg", "updateItinerary") =>
                /\ Gained(req[r].trip, "itinerary_update", req[r].user)
                /\ TripRoom("itineraryUpdated", req[r].trip) \in events'
          /\ (\/ Completes(r, "jSave", "joinTrip")
              \/ Completes(r, "lSave", "leaveTrip")
              \/ Completes(r, "uiSave", "updateItinerary")) =>
                /\ discussions' = discussions
                /\ ~trips'[req[r].trip].allowDiscussions
          /\ (req[r].pc = "jSave" /\ req'[r].pc # "jSave") =>
                trips'[req[r].trip].currentParticipants =
                   trips[req[r].trip].currentParticipants + 1]_vars

(* C26: a trip that exists before and after a step becomes approved only  *)
(* in a step of approveTrip called by an admin, and keeps its organizer.   *)
C26_OnlyAdminsApprove ==
    [][\A t \in TripIds :
          (trips[t].exists /\ trips'[t].exists) =>
             /\ trips'[t].organizer = trips[t].organizer
             /\ (~trips[t].isApproved /\ trips'[t].isApproved) =>
                   \E r \in Reqs, u \in Admins : AP_Approve(r, u, t)]_vars

(* C27: whenever no request is in progress, every stored Discussion refers *)
(* to a trip that exists.                                                   *)
C27_DiscussionsHaveTrip ==
    (\A r \in Reqs : req[r].pc = "idle") =>
        \A i \in DOMAIN discussions : trips[discussions[i].trip].exists

(* C28: a step of a leaveTrip request whose user was not among the trip's *)
(* participants leaves the trip's participants and count as they were,    *)
(* appends no message and publishes no event.                             *)
C28_LeaveByOutsiderChangesNothing ==
    [][\A r \in Reqs :
          (req[r].pc \in {"lSave", "lMsg"} /\ ~req[r].replaces /\ req'[r] # req[r]) =>
             /\ trips'[req[r].trip].participants = trips[req[r].trip].participants
             /\ trips'[req[r].trip].currentParticipants =
                   trips[req[r].trip].currentParticipants
             /\ discussions' = discussions
             /\ events' = {}]_vars

(* C29: every stored direct chat has exactly two distinct participants,   *)
(* and the chat returned by a successful createDirectChat(requester,      *)
(* other) has exactly the participants requester and other.               *)
C29_DirectChatIsAPair ==
    /\ \A i \in DOMAIN chats :
          chats[i].chatType = "direct" =>
             /\ Len(chats[i].participants) = 2
             /\ Cardinality(ParticipantSet(chats[i])) = 2
    /\ (resp.op = "createDirectChat" /\ resp.status \in {200, 201}) =>
          ParticipantSet(chats[resp.chat]) = {resp.user, resp.other}

(* C30: the read-set of every chat message holds only participants of   *)
(* the message's chat.                                                    *)
C30_ReadersAreParticipants ==
    \A i \in DOMAIN messages :
       \A u \in messages[i].readBy : IsChatParticipant(chats[messages[i].chat], u)

ChainRank(st) == CHOOSE i \in 1 .. 5 : OrderStatuses[i] = st

OnChain(st) == \E i \in 1 .. 5 : OrderStatuses[i] = st

(* C25: in every step an order on the chain pending, confirmed, shipped,   *)
(* delivered, completed stays where it is, moves forward along the chain   *)
(* or branches into cancelled or refunded, and an order that is cancelled  *)
(* or refunded keeps its status.                                           *)
C25_OrderStatusForwardOnly ==
    [][\A o \in DOMAIN orders :
          LET old == orders[o].status
              new == orders'[o].status
          IN IF OnChain(old)
             THEN OnChain(new) => ChainRank(new) >= ChainRank(old)
             ELSE new = old]_vars

(* the step is the first step of a createRating request in slot r *)
BeganRating(r) ==
    /\ req[r].pc = "idle"
    /\ req'[r].pc \in {"crInsert", "crUpdate"}

(* C8: a reviewer never has two Ratings for one target and a Rating is     *)
(* never removed; a createRating call that finds the target already rated  *)
(* takes the update path, and its save overwrites the score and the review *)
(* of that Rating without adding one; when a call answers 200 or 201 the   *)
(* triple has exactly one Rating.                                          *)
C8_OneRatingPerTriple ==
    [][/\ \A i \in DOMAIN ratings' :
            RatingsIn(ratings', ratings'[i].reviewer, ratings'[i].targetType, ratings'[i].targetId) = {i}
       /\ \A i \in DOMAIN ratings :
            /\ i \in DOMAIN ratings'
            /\ ratings'[i].reviewer = ratings[i].reviewer
            /\ ratings'[i].targetType = ratings[i].targetType
            /\ ratings'[i].targetId = ratings[i].targetId
       /\ \A r \in Reqs : BeganRating(r) =>
            (req'[r].pc = "crUpdate"
               <=> RatingsOf(req'[r].user, req'[r].targetType, req'[r].targetId) # {})
       /\ \A r \in Reqs :
            (req[r].pc = "crUpdate" /\ CR_Update(r) /\ ValidRating(req[r].rating, req[r].review))
            => /\ resp'.status = 200
               /\ Len(ratings') = Len(ratings)
               /\ RatingsOf(req[r].user, req[r].targetType, req[r].targetId) = {req[r].doc}
               /\ ratings'[req[r].doc].rating = req[r].rating
               /\ ratings'[req[r].doc].review = req[r].review
       /\ (resp'.op = "createRating" /\ resp'.status \in {200, 201})
            => Cardinality(RatingsIn(ratings', resp'.reviewer, resp'.targetType, resp'.targetId)) = 1]_vars

C8_Witness ==
    /\ resp.op = "createRating"
    /\ resp.status = 200
    /\ Len(ratings) = 2
    /\ \E i \in DOMAIN ratings :
          /\ RatingsOf(resp.reviewer, resp.targetType, resp.targetId) = {i}
          /\ ratings[i].rating = resp.rating
          /\ ratings[i].review = resp.review
          /\ resp.review.defined

HideRule ==
    \A i \in DOMAIN ratings : ratings[i].isHidden <=> ratings[i].reportCount >= HideThreshold

(* C9: a Rating is hidden exactly when its reportCount is at least 5, and  *)
(* the save of every reportRating call raises the stored reportCount by 1. *)
C9_AutoHideAtFive ==
    [][/\ HideRule'
       /\ \A r \in Reqs :
            (req[r].pc = "rrSave" /\ RR_Save(r))
            => ratings'[req[r].doc].reportCount = ratings[req[r].doc].reportCount + 1]_vars

(* C10: Discussion sendMessage and Chat sendMessage answer 400 to content  *)
(* that is missing, empty or whitespace-only, for every caller and target, *)
(* and the request ends there: nothing is stored or changed and no event   *)
(* is published.                                                           *)
C10_BlankContentRejected ==
    [][/\ \A r \in Reqs : BeganSend(r) =>
            \/ /\ resp' = R("sendMessage", 400)
               /\ req'[r].pc = "idle"
               /\ UNCHANGED <<tripVars, chatVars>>
               /\ events' = {}
            \/ ~ \E u \in DiscUsers, t \in AllTripIds, c \in DiscContents, ty \in DiscMsgTypes :
                    BlankInput(c) /\ DS_Check(r, u, t, c, ty)
       /\ \A r \in Reqs : BeganChatSend(r) =>
            \/ /\ resp' = ChatSendResp(400)
               /\ req'[r].pc = "idle"
               /\ UNCHANGED <<tripVars, chatVars>>
               /\ events' = {}
            \/ ~ \E u \in Users, ch \in 0 .. MaxChats, c \in ChatContents, ty \in ChatMsgTypes :
                    BlankInput(c) /\ CS_Find(r, u, ch, c, ty)]_vars

C10_Witness ==
    /\ resp = ChatSendResp(400)
    /\ Len(messages) > 0
    /\ \E i \in DOMAIN discussions : Len(discussions[i].messages) > 1

====
